---- MODULE Spec2Model ----
(***************************************************************************)
(* A model of gh-migrate-variables: the export and sync orchestrators      *)
(* (pkg/export, pkg/sync), the reader, writer, existence check, repository *)
(* listing and retry policy of internal/api, and the CSV transfer file     *)
(* between them.                                                           *)
(*                                                                         *)
(* Strings are sequences of symbols.  A symbol is either one of the        *)
(* characters the CSV format treats specially (comma, double quote, CR,    *)
(* LF) or an opaque run of ordinary characters ("organization", "repoA").  *)
(* Time is counted in whole seconds.                                       *)
(***************************************************************************)
EXTENDS Integers, Sequences, FiniteSets, TLC

VARIABLES
    scenario,   \* which command line is run: "retry", "sync", "migrate"
    cfg,        \* viper settings RETRY_MAX and RETRY_DELAY
    src,        \* the source organization at the remote (read by export)
    tgt,        \* the target organization at the remote (written by sync)
    file,       \* the CSV transfer file on disk
    pc,         \* position of the running command
    ex,         \* locals of ExportVariables
    sy,         \* locals of SyncVariables
    rt,         \* the retry envelope in progress (retryWithDefaultContext)
    calls,      \* every remote request issued so far, in order
    out         \* what the process printed and how it ended

vars == <<scenario, cfg, src, tgt, file, pc, ex, sy, rt, calls, out>>

----------------------------------------------------------------------------
(* Bounds of the model *)

\* RETRY_MAX is drawn from -1 .. MaxRetryMax
MaxRetryMax == 4
\* a hand-written CSV input holds a header and at most MaxRows data rows
MaxRows == 2
\* RETRY_MAX of the runs against a remote that never answers: enough attempts
\* of 30 seconds to outlast the five minutes of the retry envelope
MaxHangAttempts == 12

(* Program constants *)

\* createAPITimeoutContext: every remote call is bounded by 30 seconds
AttemptTimeout == 30
\* createLongLivedContext: 5 minutes for a whole retry envelope
Deadline == 300
\* retryWithExponentialBackoff: RETRY_MAX <= 0 means 3 attempts
DefaultMaxRetries == 3
\* retryWithExponentialBackoff: an unparsable RETRY_DELAY means one second
DefaultRetryDelay == 1
\* SyncVariables: a data row needs four columns
RequiredColumns == 4
\* listPaginatedRepositories: ListOptions{PerPage: 100}
PerPage == 100

----------------------------------------------------------------------------
(* Strings *)

Comma == ","
Quote == "\""
CR == "\r"
LF == "\n"
Space == " "

EmptyStr == << >>

\* strings.Join
RECURSIVE Join(_, _)
Join(strs, sep) ==
    IF Len(strs) = 0 THEN EmptyStr
    ELSE IF Len(strs) = 1 THEN strs[1]
    ELSE strs[1] \o sep \o Join(Tail(strs), sep)

\* fmt's %d for the attempt counts that occur
RECURSIVE Itoa(_)
Itoa(n) ==
    IF n \in 0..9 THEN <<"0", "1", "2", "3", "4", "5", "6", "7", "8", "9">>[n + 1]
    ELSE IF n > 9 THEN Itoa(n \div 10) \o Itoa(n % 10)
    ELSE "-" \o Itoa(0 - n)

Max(a, b) == IF a >= b THEN a ELSE b

RECURSIVE Pow2(_)
Pow2(n) == IF n <= 0 THEN 1 ELSE 2 * Pow2(n - 1)

const_EntityTypeOrg == <<"organization">>
const_EntityTypeRepository == <<"repository">>
defaultVariableVisibility == <<"private">>

----------------------------------------------------------------------------
(* encoding/csv as the two commands use it: csv.NewWriter with its default *)
(* settings (Comma ',', UseCRLF false) in ExportVariables, csv.NewReader   *)
(* with its default settings (FieldsPerRecord 0, LazyQuotes false) in      *)
(* SyncVariables.                                                          *)

\* Writer.fieldNeedsQuotes
fieldNeedsQuotes(f) ==
    /\ f # EmptyStr
    /\ \/ \E i \in 1..Len(f) : f[i] \in {Comma, Quote, CR, LF}
       \/ f[1] = Space

\* Writer.Write, one field: a quoted field doubles its quotes and keeps CR and LF
RECURSIVE csvQuoteBody(_)
csvQuoteBody(f) ==
    IF f = EmptyStr THEN EmptyStr
    ELSE (IF Head(f) = Quote THEN <<Quote, Quote>> ELSE <<Head(f)>>) \o csvQuoteBody(Tail(f))

csvWriteField(f) ==
    IF fieldNeedsQuotes(f) THEN <<Quote>> \o csvQuoteBody(f) \o <<Quote>> ELSE f

\* writer.Write(record): the fields joined by commas, ended by a line feed
csvWriteRecord(record) ==
    Join([i \in 1..Len(record) |-> csvWriteField(record[i])], <<Comma>>) \o <<LF>>

RECURSIVE csvWriteAll(_)
csvWriteAll(records) ==
    IF Len(records) = 0 THEN EmptyStr
    ELSE csvWriteRecord(Head(records)) \o csvWriteAll(Tail(records))

\* Reader.readLine: CR LF at the end of a line becomes LF, and a CR that ends
\* the input is dropped
RECURSIVE csvNormalize(_)
csvNormalize(s) ==
    IF Len(s) = 0 THEN EmptyStr
    ELSE IF Len(s) = 1 THEN (IF s[1] = CR THEN EmptyStr ELSE s)
    ELSE IF s[1] = CR /\ s[2] = LF THEN <<LF>> \o csvNormalize(SubSeq(s, 3, Len(s)))
    ELSE <<s[1]>> \o csvNormalize(Tail(s))

\* Reader.readRecord over the normalized input s, from position i.
\*   mode: "line" at the start of a line, "field" at the start of a field,
\*         "bare" inside an unquoted field, "quoted" inside a quoted field
\*   fld, rec, recs: the field, record and records read so far
\*   fpr: Reader.FieldsPerRecord (0 until the first record sets it; negative:
\*        records may have any number of fields)
\* The result is [err, records] as ReadAll returns them: records is empty when
\* err is TRUE.
RECURSIVE csvParse(_, _, _, _, _, _, _)
csvParse(s, i, mode, fld, rec, recs, fpr) ==
    LET eof == i > Len(s)
        c == IF eof THEN "" ELSE s[i]
        failed == [err |-> TRUE, records |-> << >>]
        \* the record is complete: check it against FieldsPerRecord
        endRecord(r, next) ==
            IF fpr > 0 /\ Len(r) # fpr THEN failed
            ELSE csvParse(s, next, "line", EmptyStr, << >>, Append(recs, r),
                          IF fpr = 0 THEN Len(r) ELSE fpr)
    IN  CASE mode = "line" ->
                IF eof THEN [err |-> FALSE, records |-> recs]
                ELSE IF c = LF THEN csvParse(s, i + 1, "line", EmptyStr, << >>, recs, fpr)
                ELSE csvParse(s, i, "field", EmptyStr, rec, recs, fpr)
          [] mode = "field" ->
                IF ~eof /\ c = Quote
                THEN csvParse(s, i + 1, "quoted", EmptyStr, rec, recs, fpr)
                ELSE csvParse(s, i, "bare", EmptyStr, rec, recs, fpr)
          [] mode = "bare" ->
                IF eof \/ c = LF THEN endRecord(Append(rec, fld), i + 1)
                ELSE IF c = Comma
                THEN csvParse(s, i + 1, "field", EmptyStr, Append(rec, fld), recs, fpr)
                ELSE IF c = Quote THEN failed
                ELSE csvParse(s, i + 1, "bare", Append(fld, c), rec, recs, fpr)
          [] OTHER ->
                IF eof THEN failed
                ELSE IF c # Quote
                THEN csvParse(s, i + 1, "quoted", Append(fld, c), rec, recs, fpr)
                ELSE IF i + 1 > Len(s) \/ s[i + 1] = LF
                THEN endRecord(Append(rec, fld), i + 2)
                ELSE IF s[i + 1] = Quote
                THEN csvParse(s, i + 2, "quoted", Append(fld, Quote), rec, recs, fpr)
                ELSE IF s[i + 1] = Comma
                THEN csvParse(s, i + 2, "field", EmptyStr, Append(rec, fld), recs, fpr)
                ELSE failed

\* reader.ReadAll()
csvReadAll(data) == csvParse(csvNormalize(data), 1, "line", EmptyStr, << >>, << >>, 0)

----------------------------------------------------------------------------
(* Errors, as the text err.Error() gives *)

\* an error the remote (or the transport) answers a request with
TransportError == <<"transport error">>
ConflictError == <<"409 already exists">>
NotFoundError == <<"404 not found">>
\* ctx.Err() of a context whose deadline has passed
DeadlineExceeded == <<"context deadline exceeded">>

\* fmt.Errorf("operation cancelled: %w", ctx.Err())
errCancelled == <<"operation cancelled: ">> \o DeadlineExceeded

\* fmt.Errorf("operation failed after %d attempts: %w", maxRetries, lastErr)
errExhausted(maxRetries, lastErr) ==
    <<"operation failed after ", Itoa(maxRetries), " attempts: ">> \o lastErr

\* fmt.Errorf("repository %s does not exist in organization %s", repo, org)
errRepositoryNotFound(repo, org) ==
    <<"repository ">> \o repo \o <<" does not exist in organization ">> \o org

\* fmt.Errorf("failed to create %s variable %s: %w", entityType, name, err)
errCreateFailed(entityType, name, err) ==
    <<"failed to create ">> \o entityType \o <<" variable ">> \o name \o <<": ">> \o err

\* fmt.Errorf("failed to fetch %s variables: %w", entityType, err)
errFetchFailed(entityType, err) ==
    <<"failed to fetch ">> \o entityType \o <<" variables: ">> \o err

errOrgAndNameRequired == <<"organization name and variable name are required">>
errOrgRequired == <<"organization name is required">>
errRepoRequired == <<"repository name is required">>
errNoData == <<"no data returned">>

----------------------------------------------------------------------------
(* The remote: what a request may be answered with, and what it changes *)

\* the operation kinds of the go-github client the program calls
OpNone == [kind |-> "none", org |-> EmptyStr, repo |-> EmptyStr,
           name |-> EmptyStr, value |-> EmptyStr, visibility |-> EmptyStr,
           perPage |-> 0, page |-> 0]
OpHarness == [OpNone EXCEPT !.kind = "operation"]
\* an operation whose request is never answered: it ends when the 30 seconds
\* of its own context are over
OpHanging == [OpNone EXCEPT !.kind = "hanging"]

\* how long one remote call may take: short, or until its 30 second timeout
CallDurations == {1, AttemptTimeout}
CallDurationsOf(op) == IF op.kind = "hanging" THEN {AttemptTimeout} ELSE CallDurations

\* a variable org/repo already holds under the name the create asks for
tgtHasVariable(op) ==
    IF op.kind = "CreateOrgVariable"
    THEN \E v \in tgt.orgVars : v.Name = op.name
    ELSE \E v \in tgt.repoVars : v.Repo = op.repo /\ v.Name = op.name

\* the answers the remote may give to one call of the operation: [ok, err, resp]
RemoteAnswers(op) ==
    LET good(resp) == [ok |-> TRUE, err |-> EmptyStr, resp |-> resp]
        bad(e) == [ok |-> FALSE, err |-> e, resp |-> << >>]
    IN  CASE op.kind = "ListOrgVariables" ->
                {good(src.orgVars), bad(TransportError)}
          [] op.kind = "ListRepoVariables" ->
                IF op.repo \in DOMAIN src.repoVars
                THEN {good(src.repoVars[op.repo]), bad(TransportError)}
                ELSE {bad(NotFoundError)}
          [] op.kind \in {"CreateOrgVariable", "CreateRepoVariable"} ->
                IF op.kind = "CreateRepoVariable" /\ op.repo \notin tgt.repos
                THEN {bad(NotFoundError)}
                ELSE IF tgtHasVariable(op) THEN {bad(ConflictError), bad(TransportError)}
                ELSE {good(<< >>), bad(TransportError)}
          [] op.kind = "hanging" ->
                {bad(DeadlineExceeded)}
          [] OTHER ->
                {good(<< >>), bad(<<"e1">>), bad(<<"e2">>)}

\* the target organization after the remote accepted the operation
RemoteApply(op) ==
    CASE op.kind = "CreateOrgVariable" ->
            [tgt EXCEPT !.orgVars = @ \cup
                {[Name |-> op.name, Value |-> op.value, Visibility |-> op.visibility]}]
      [] op.kind = "CreateRepoVariable" ->
            [tgt EXCEPT !.repoVars = @ \cup
                {[Repo |-> op.repo, Name |-> op.name, Value |-> op.value,
                  Visibility |-> op.visibility]}]
      [] OTHER -> tgt

\* the record of one request, as kept in calls
\* (item: the CSV row or the repository the orchestrator is at, 0 before any)
\*  ok: the remote answered without an error and with a payload; err: the
\*  error it answered with)
Call(op, attempt, item, ok, err) ==
    [op |-> op, attempt |-> attempt, item |-> item, ok |-> ok, err |-> err]

----------------------------------------------------------------------------
(* The retry policy *)

RetryIdle ==
    [state |-> "idle", op |-> OpNone, attempt |-> 0, maxRetries |-> 0, retryDelay |-> 0,
     now |-> 0, waits |-> << >>, lastErr |-> EmptyStr, ok |-> FALSE, err |-> EmptyStr,
     resp |-> << >>]

\* maxRetriesOf with the default taken only for a negative RETRY_MAX
maxRetriesOfNegative(c) == IF c.retryMax < 0 THEN DefaultMaxRetries ELSE c.retryMax

\* viper.GetInt("RETRY_MAX"), 3 when it is not positive
maxRetriesOf(c) == IF c.retryMax <= 0 THEN DefaultMaxRetries ELSE c.retryMax

\* time.ParseDuration(viper.GetString("RETRY_DELAY")), one second when it fails
retryDelayOf(c) == IF c.delayOk THEN c.retryDelay ELSE DefaultRetryDelay

\* waitTime with the shift off by one: 1<<uint(attempt)
waitTimeShifted(retryDelay, attempt) == retryDelay * Pow2(attempt)

\* waitTime := retryDelay * time.Duration(1<<uint(attempt-1))
waitTime(retryDelay, attempt) == retryDelay * Pow2(attempt - 1)

\* retryWithDefaultContext(operation): a fresh five minute context, then the
\* first attempt of retryWithExponentialBackoff
retryWithDefaultContext(op) ==
    [RetryIdle EXCEPT !.state = "attempt", !.op = op, !.attempt = 1,
                      !.maxRetries = maxRetriesOf(cfg), !.retryDelay = retryDelayOf(cfg)]

\* retryWithExponentialBackoff, one pass of the loop body: the operation ran
\* for d seconds and was answered with a
retryWithExponentialBackoff(r, a, d) ==
    IF a.ok
    THEN [r EXCEPT !.state = "returned", !.ok = TRUE, !.resp = a.resp, !.now = @ + d]
    ELSE IF r.attempt < r.maxRetries
    THEN [r EXCEPT !.state = "wait", !.lastErr = a.err, !.now = @ + d,
                   !.waits = Append(@, waitTime(r.retryDelay, r.attempt))]
    ELSE [r EXCEPT !.state = "returned", !.ok = FALSE, !.lastErr = a.err, !.now = @ + d,
                   !.err = errExhausted(r.maxRetries, a.err)]

\* the backoff wait in progress, and when its two channels become ready
currentWait(r) == r.waits[Len(r.waits)]
timerReadyAt(r) == r.now + Max(currentWait(r), 0)
ctxDoneAt(r) == Max(Deadline, r.now)

\* the item the running orchestrator is processing
currentItem ==
    IF pc \in {"sync_exists", "sync_create"} THEN sy.idx
    ELSE IF pc = "export_repo" THEN ex.idx
    ELSE 0

\* One attempt: operation() is called, the remote answers
RetryAttempt ==
    /\ rt.state = "attempt"
    /\ \E d \in CallDurationsOf(rt.op), a \in RemoteAnswers(rt.op) :
        /\ rt' = retryWithExponentialBackoff(rt, a, d)
        /\ tgt' = IF a.ok THEN RemoteApply(rt.op) ELSE tgt
        /\ calls' = Append(calls, Call(rt.op, rt.attempt, currentItem, a.ok, a.err))
    /\ UNCHANGED <<scenario, cfg, src, file, pc, ex, sy, out>>

\* RetryWaitElapsed as a plain time.Sleep(waitTime), blind to ctx.Done()
RetryWaitSleep ==
    /\ rt.state = "wait"
    /\ rt' = [rt EXCEPT !.state = "attempt", !.attempt = @ + 1, !.now = timerReadyAt(rt)]
    /\ UNCHANGED <<scenario, cfg, src, tgt, file, pc, ex, sy, calls, out>>

\* select, case <-time.After(waitTime): continue
RetryWaitElapsed ==
    /\ rt.state = "wait"
    /\ timerReadyAt(rt) <= ctxDoneAt(rt)
    /\ rt' = [rt EXCEPT !.state = "attempt", !.attempt = @ + 1, !.now = timerReadyAt(rt)]
    /\ UNCHANGED <<scenario, cfg, src, tgt, file, pc, ex, sy, calls, out>>

\* select, case <-ctx.Done(): return "operation cancelled"
RetryWaitCancelled ==
    /\ rt.state = "wait"
    /\ ctxDoneAt(rt) <= timerReadyAt(rt)
    /\ rt' = [rt EXCEPT !.state = "returned", !.ok = FALSE, !.err = errCancelled,
                        !.now = ctxDoneAt(rt)]
    /\ UNCHANGED <<scenario, cfg, src, tgt, file, pc, ex, sy, calls, out>>

----------------------------------------------------------------------------
(* The process: what it printed and how it ended *)

\* a command that has not been run
ProcNotRun ==
    [state |-> "notrun", exitCode |-> 0, summary |-> << >>, err |-> EmptyStr,
     panic |-> FALSE]
ProcRunning == [ProcNotRun EXCEPT !.state = "running"]

\* the command's function returned err (nil: EmptyStr): Run prints it, main exits 0
procReturned(p, err) == [p EXCEPT !.state = "exited", !.exitCode = 0, !.err = err]
\* os.Exit(code)
procExit(p, code) == [p EXCEPT !.state = "exited", !.exitCode = code]
\* a run-time panic ends the process with status 2
procPanic(p) == [p EXCEPT !.state = "exited", !.exitCode = 2, !.panic = TRUE]

\* viper's source-organization and target-organization
SourceOrg == <<"src-org">>
TargetOrg == <<"tgt-org">>

----------------------------------------------------------------------------
(* The writer: addGitHubVariable and doesRepositoryExist *)

\* addGitHubVariableValidate without the check of the variable's name
addGitHubVariableValidateOrgOnly(entityType, org, repo, name) ==
    IF org = EmptyStr THEN errOrgAndNameRequired
    ELSE IF entityType = const_EntityTypeRepository /\ repo = EmptyStr THEN errRepoRequired
    ELSE EmptyStr

\* addGitHubVariable, the checks before any request; EmptyStr is a nil error
addGitHubVariableValidate(entityType, org, repo, name) ==
    IF org = EmptyStr \/ name = EmptyStr THEN errOrgAndNameRequired
    ELSE IF entityType = const_EntityTypeRepository /\ repo = EmptyStr THEN errRepoRequired
    ELSE EmptyStr

\* addGitHubVariableOp handing on the visibility as it is, empty or not
addGitHubVariableOpAsIs(entityType, org, repo, name, value, visibility) ==
    [OpNone EXCEPT
        !.kind = IF entityType = const_EntityTypeOrg THEN "CreateOrgVariable"
                 ELSE "CreateRepoVariable",
        !.org = org, !.repo = repo, !.name = name, !.value = value,
        !.visibility = visibility]

\* addGitHubVariable: the variable handed to the create call
addGitHubVariableOp(entityType, org, repo, name, value, visibility) ==
    [OpNone EXCEPT
        !.kind = IF entityType = const_EntityTypeOrg THEN "CreateOrgVariable"
                 ELSE "CreateRepoVariable",
        !.org = org, !.repo = repo, !.name = name, !.value = value,
        !.visibility = IF visibility = EmptyStr THEN defaultVariableVisibility
                       ELSE visibility]

\* client.Repositories.Get(ctx, org, repo): the answers the remote may give
RepositoryGetAnswers(org, repo) ==
    IF org = TargetOrg /\ repo \in tgt.repos
    THEN {[err |-> FALSE, status |-> 200], [err |-> TRUE, status |-> 0]}
    ELSE {[err |-> TRUE, status |-> 404]}

\* doesRepositoryExist taking a failed lookup for an existing repository
doesRepositoryExistOnError(answer) == IF answer.err THEN TRUE ELSE answer.status = 200

\* doesRepositoryExist: any error of the lookup means "does not exist"
doesRepositoryExist(answer) == IF answer.err THEN FALSE ELSE answer.status = 200

----------------------------------------------------------------------------
(* SyncVariables *)

SyncIdle ==
    [records |-> << >>, idx |-> 0, total |-> 0, succeeded |-> 0, failed |-> 0,
     skipped |-> 0,
     \* not in the code: what doesRepositoryExist said for the row at hand
     \* ("unchecked", "yes", "no"), and for every row counted so far its outcome,
     \* that answer and the error addGitHubVariable returned
     exists |-> "unchecked", outcomes |-> << >>, details |-> << >>]

\* records[1:]
syncRows(s) == Tail(s.records)
\* syncRow taking the records from the last to the first
syncRowBackwards(s) == syncRows(s)[Len(syncRows(s)) + 1 - s.idx]

\* the record of the loop's pass: for _, record := range records[1:]
syncRow(s) == syncRows(s)[s.idx]

\* syncClassify with the arguments of the expected message swapped
syncClassifySwapped(scope, targetOrg, err) ==
    IF err = EmptyStr THEN "succeeded"
    ELSE IF scope = const_EntityTypeOrg THEN "failed"
    ELSE IF err = errRepositoryNotFound(targetOrg, scope) THEN "skipped"
    ELSE "failed"

\* syncClassify without the comparison with the "does not exist" message
syncClassifyNoSkip(scope, targetOrg, err) ==
    IF err = EmptyStr THEN "succeeded" ELSE "failed"

\* the branch on the error AddOrgVariable or AddRepoVariable returned
syncClassify(scope, targetOrg, err) ==
    IF err = EmptyStr THEN "succeeded"
    ELSE IF scope = const_EntityTypeOrg THEN "failed"
    ELSE IF err = errRepositoryNotFound(scope, targetOrg) THEN "skipped"
    ELSE "failed"

\* syncTally counting a skipped row as failed too
syncTallySkipFails(s, outcome, err) ==
    [s EXCEPT !.idx = @ + 1,
              !.succeeded = IF outcome = "succeeded" THEN @ + 1 ELSE @,
              !.failed = IF outcome \in {"failed", "skipped"} THEN @ + 1 ELSE @,
              !.skipped = IF outcome = "skipped" THEN @ + 1 ELSE @,
              !.exists = "unchecked",
              !.outcomes = Append(@, outcome),
              !.details = Append(@, [exists |-> s.exists, err |-> err])]

\* stats.succeeded++, stats.failed++ or stats.skipped++, and the loop moves to
\* the next row
syncTally(s, outcome, err) ==
    [s EXCEPT !.idx = @ + 1,
              !.succeeded = IF outcome = "succeeded" THEN @ + 1 ELSE @,
              !.failed = IF outcome = "failed" THEN @ + 1 ELSE @,
              !.skipped = IF outcome = "skipped" THEN @ + 1 ELSE @,
              !.exists = "unchecked",
              !.outcomes = Append(@, outcome),
              !.details = Append(@, [exists |-> s.exists, err |-> err])]

\* a row of four columns is counted by the error its Add call returned
syncCount(s, err) == syncTally(s, syncClassify(syncRow(s)[3], TargetOrg, err), err)

\* the entity type a row is written as
syncEntityType(scope) ==
    IF scope = const_EntityTypeOrg THEN const_EntityTypeOrg ELSE const_EntityTypeRepository

\* the repository argument of addGitHubVariable for a row
syncRepo(scope) == IF scope = const_EntityTypeOrg THEN EmptyStr ELSE scope

\* os.Open, reader.ReadAll and records[1:]
SyncStart ==
    /\ pc = "sync_start"
    /\ LET read == csvReadAll(file.data) IN
        IF ~file.exists
        THEN /\ out' = [out EXCEPT !.sync = procReturned(@, <<"cannot open file">>)]
             /\ pc' = "exited"
             /\ sy' = sy
        ELSE IF read.err
        THEN /\ out' = [out EXCEPT !.sync = procReturned(@, <<"cannot read file">>)]
             /\ pc' = "exited"
             /\ sy' = sy
        ELSE IF Len(read.records) = 0
        THEN /\ out' = [out EXCEPT !.sync = procPanic(@)]
             /\ pc' = "exited"
             /\ sy' = sy
        ELSE /\ out' = out
             /\ pc' = "sync_rows"
             /\ sy' = [sy EXCEPT !.records = read.records, !.idx = 1]
    /\ UNCHANGED <<scenario, cfg, src, tgt, file, ex, rt, calls>>

\* One pass of the loop up to the row's first request: the column check, and
\* the checks of addGitHubVariable
SyncNextRow ==
    /\ pc = "sync_rows"
    /\ sy.idx <= Len(syncRows(sy))
    /\ LET record == syncRow(sy)
           counted == [sy EXCEPT !.total = @ + 1]
       IN  IF Len(record) < RequiredColumns
           THEN /\ sy' = syncTally(counted, "skipped", EmptyStr)
                /\ UNCHANGED <<pc, rt>>
           ELSE LET scope == record[3]
                    invalid == addGitHubVariableValidate(syncEntityType(scope), TargetOrg,
                                                         syncRepo(scope), record[1])
                IN  IF invalid # EmptyStr
                    THEN /\ sy' = syncCount(counted, invalid)
                         /\ UNCHANGED <<pc, rt>>
                    ELSE IF scope = const_EntityTypeOrg
                    THEN /\ sy' = counted
                         /\ pc' = "sync_create"
                         /\ rt' = retryWithDefaultContext(
                                    addGitHubVariableOp(const_EntityTypeOrg, TargetOrg, EmptyStr,
                                                        record[1], record[2], record[4]))
                    ELSE /\ sy' = counted
                         /\ pc' = "sync_exists"
                         /\ rt' = rt
    /\ UNCHANGED <<scenario, cfg, src, tgt, file, ex, calls, out>>

\* addGitHubVariable for a repository: doesRepositoryExist, then either the
\* "does not exist" error or the create call
SyncRepoExists ==
    /\ pc = "sync_exists"
    /\ LET record == syncRow(sy)
           scope == record[3]
       IN  \E answer \in RepositoryGetAnswers(TargetOrg, scope) :
             /\ calls' = Append(calls,
                                Call([OpNone EXCEPT !.kind = "GetRepository",
                                                    !.org = TargetOrg, !.repo = scope],
                                     1, sy.idx, ~answer.err,
                                     IF ~answer.err THEN EmptyStr
                                     ELSE IF answer.status = 404 THEN NotFoundError
                                     ELSE TransportError))
             /\ IF doesRepositoryExist(answer)
                THEN /\ pc' = "sync_create"
                     /\ rt' = retryWithDefaultContext(
                                addGitHubVariableOp(const_EntityTypeRepository, TargetOrg, scope,
                                                    record[1], record[2], record[4]))
                     /\ sy' = [sy EXCEPT !.exists = "yes"]
                ELSE /\ pc' = "sync_rows"
                     /\ rt' = rt
                     /\ sy' = syncCount([sy EXCEPT !.exists = "no"],
                                        errRepositoryNotFound(scope, TargetOrg))
    /\ UNCHANGED <<scenario, cfg, src, tgt, file, ex, out>>

\* SyncCreateDone returning the error of a failed create: the loop ends there
SyncCreateDoneReturn ==
    /\ pc = "sync_create"
    /\ rt.state = "returned"
    /\ LET record == syncRow(sy)
           scope == record[3]
           err == IF rt.ok THEN EmptyStr
                  ELSE errCreateFailed(syncEntityType(scope), record[1], rt.err)
       IN  /\ sy' = syncCount(sy, err)
           /\ pc' = IF rt.ok THEN "sync_rows" ELSE "exited"
           /\ out' = IF rt.ok THEN out ELSE [out EXCEPT !.sync = procReturned(@, err)]
    /\ rt' = RetryIdle
    /\ UNCHANGED <<scenario, cfg, src, tgt, file, ex, calls>>

\* the create call returned: the row is counted
SyncCreateDone ==
    /\ pc = "sync_create"
    /\ rt.state = "returned"
    /\ LET record == syncRow(sy)
           scope == record[3]
           err == IF rt.ok THEN EmptyStr
                  ELSE errCreateFailed(syncEntityType(scope), record[1], rt.err)
       IN  sy' = syncCount(sy, err)
    /\ pc' = "sync_rows"
    /\ rt' = RetryIdle
    /\ UNCHANGED <<scenario, cfg, src, tgt, file, ex, calls, out>>

\* after the loop: the summary, then os.Exit(1) if a row failed
SyncSummary ==
    /\ pc = "sync_rows"
    /\ sy.idx > Len(syncRows(sy))
    /\ LET printed == [out.sync EXCEPT !.summary = <<[total |-> sy.total,
                                                      succeeded |-> sy.succeeded,
                                                      failed |-> sy.failed,
                                                      skipped |-> sy.skipped]>>]
       IN  out' = [out EXCEPT !.sync = IF sy.failed > 0 THEN procExit(printed, 1)
                                       ELSE procReturned(printed, EmptyStr)]
    /\ pc' = "exited"
    /\ UNCHANGED <<scenario, cfg, src, tgt, file, ex, sy, rt, calls>>

----------------------------------------------------------------------------
(* The reader: parseGitHubVariable, fetchGitHubVariables,                  *)
(* listPaginatedRepositories                                               *)

\* a *github.ActionsVariable of a response (isNil: a nil pointer in the list;
\* hasVisibility: the Visibility pointer is set)
RemoteVariable(name, value, hasVisibility, visibility) ==
    [isNil |-> FALSE, Name |-> name, Value |-> value, hasVisibility |-> hasVisibility,
     Visibility |-> visibility]
NilVariable == [RemoteVariable(EmptyStr, EmptyStr, FALSE, EmptyStr) EXCEPT !.isNil = TRUE]

\* parseGitHubVariable dropping only a nil variable, not one with an empty name
parseGitHubVariableNilOnly(variable, scope) ==
    IF variable.isNil THEN << >>
    ELSE <<[Name |-> variable.Name, Value |-> variable.Value, Scope |-> scope,
            Visibility |-> IF variable.hasVisibility THEN variable.Visibility
                           ELSE defaultVariableVisibility]>>

\* parseGitHubVariable: no record (nil) or one record
parseGitHubVariable(variable, scope) ==
    IF variable.isNil \/ variable.Name = EmptyStr THEN << >>
    ELSE <<[Name |-> variable.Name, Value |-> variable.Value, Scope |-> scope,
            Visibility |-> IF variable.hasVisibility THEN variable.Visibility
                           ELSE defaultVariableVisibility]>>

\* fetchGitHubVariables, the checks before any request
fetchGitHubVariablesValidate(entityType, org, repo) ==
    IF org = EmptyStr THEN errOrgRequired
    ELSE IF entityType = const_EntityTypeRepository /\ repo = EmptyStr THEN errRepoRequired
    ELSE EmptyStr

\* fetchGitHubVariables, the loop over variables.Variables
RECURSIVE parseVariables(_, _)
parseVariables(variables, scope) ==
    IF Len(variables) = 0 THEN << >>
    ELSE parseGitHubVariable(Head(variables), scope) \o parseVariables(Tail(variables), scope)

\* the scope fetchGitHubVariables gives the records
fetchScope(entityType, repo) ==
    IF entityType = const_EntityTypeRepository THEN repo ELSE entityType

\* a *github.Repository of a listing page
RepositoryEntry(name) == [isNil |-> FALSE, hasName |-> TRUE, name |-> name]

\* a null element of a page, and a repository whose name is null
NilRepository == [isNil |-> TRUE, hasName |-> FALSE, name |-> EmptyStr]
NamelessRepository == [isNil |-> FALSE, hasName |-> FALSE, name |-> EmptyStr]

\* pageNames taking every entry that is not nil, named or not
RECURSIVE pageNamesNotNil(_)
pageNamesNotNil(repos) ==
    IF Len(repos) = 0 THEN << >>
    ELSE (IF ~Head(repos).isNil THEN <<Head(repos).name>> ELSE << >>)
         \o pageNamesNotNil(Tail(repos))

\* listPaginatedRepositories, the loop over one page's repos
RECURSIVE pageNames(_)
pageNames(repos) ==
    IF Len(repos) = 0 THEN << >>
    ELSE (IF ~Head(repos).isNil /\ Head(repos).hasName THEN <<Head(repos).name>> ELSE << >>)
         \o pageNames(Tail(repos))

\* client.Repositories.ListByOrg(ctx, org, opts): the answers the remote may give
\* (page 0 asks for the first page)
ListByOrgAnswers(page) ==
    LET p == IF page = 0 THEN 1 ELSE page IN
    {[err |-> TRUE, isNil |-> TRUE, repos |-> << >>, nextPage |-> 0],
     [err |-> FALSE, isNil |-> TRUE, repos |-> << >>, nextPage |-> 0],
     [err |-> FALSE, isNil |-> FALSE, repos |-> src.pages[p],
      nextPage |-> IF p < Len(src.pages) THEN p + 1 ELSE 0]}

----------------------------------------------------------------------------
(* ExportVariables *)

ExportIdle ==
    [allVariables |-> << >>, allResources |-> << >>, page |-> 0, repos |-> << >>,
     idx |-> 0, successful |-> 0, failed |-> 0]

\* the header and the rows ExportVariables writes
csvHeader == <<<<"Name">>, <<"Value">>, <<"Scope">>, <<"Visibility">>>>
RECURSIVE exportRows(_)
exportRows(variables) ==
    IF Len(variables) = 0 THEN << >>
    ELSE LET v == Head(variables) IN
         (IF v.Name # EmptyStr THEN <<<<v.Name, v.Value, v.Scope, v.Visibility>>>> ELSE << >>)
         \o exportRows(Tail(variables))

\* api.FetchOrgVariables is called
ExportStart ==
    /\ pc = "export_start"
    /\ pc' = "export_org"
    /\ rt' = retryWithDefaultContext([OpNone EXCEPT !.kind = "ListOrgVariables",
                                                    !.org = SourceOrg])
    /\ UNCHANGED <<scenario, cfg, src, tgt, file, ex, sy, calls, out>>

\* api.FetchOrgVariables returned: a failure is only warned about
ExportOrgDone ==
    /\ pc = "export_org"
    /\ rt.state = "returned"
    /\ ex' = IF rt.ok
             THEN [ex EXCEPT !.allVariables =
                        @ \o parseVariables(rt.resp, fetchScope(const_EntityTypeOrg, EmptyStr))]
             ELSE ex
    /\ pc' = "export_list"
    /\ rt' = RetryIdle
    /\ UNCHANGED <<scenario, cfg, src, tgt, file, sy, calls, out>>

\* ExportListPage with a failed listing only warned about: the repositories
\* listed so far are processed
ExportListPageLenient ==
    /\ pc = "export_list"
    /\ \E answer \in ListByOrgAnswers(ex.page) :
        /\ calls' = Append(calls,
                           Call([OpNone EXCEPT !.kind = "ListByOrg", !.org = SourceOrg,
                                               !.perPage = PerPage, !.page = ex.page],
                                1, 0, ~answer.err /\ ~answer.isNil,
                                IF answer.err THEN TransportError ELSE EmptyStr))
        /\ LET names == ex.allResources \o pageNames(answer.repos) IN
           IF answer.nextPage = 0
           THEN /\ ex' = [ex EXCEPT !.allResources = names, !.repos = names, !.idx = 1]
                /\ pc' = "export_repos"
           ELSE /\ ex' = [ex EXCEPT !.allResources = names, !.page = answer.nextPage]
                /\ pc' = "export_list"
    /\ UNCHANGED <<scenario, cfg, src, tgt, file, sy, rt, out>>

\* api.FetchAllRepositories, one pass of the loop of listPaginatedRepositories
ExportListPage ==
    /\ pc = "export_list"
    /\ \E answer \in ListByOrgAnswers(ex.page) :
        /\ calls' = Append(calls,
                           Call([OpNone EXCEPT !.kind = "ListByOrg", !.org = SourceOrg,
                                               !.perPage = PerPage, !.page = ex.page],
                                1, 0, ~answer.err /\ ~answer.isNil,
                                IF answer.err THEN TransportError ELSE EmptyStr))
        /\ IF answer.err \/ answer.isNil
           THEN /\ out' = [out EXCEPT !.export =
                               procReturned(@, <<"failed to fetch repositories: ">>
                                               \o (IF answer.err THEN TransportError
                                                   ELSE errNoData))]
                /\ pc' = "exited"
                /\ ex' = [ex EXCEPT !.allResources = << >>]
           ELSE LET names == ex.allResources \o pageNames(answer.repos) IN
                IF answer.nextPage = 0
                THEN /\ ex' = [ex EXCEPT !.allResources = names, !.repos = names, !.idx = 1]
                     /\ pc' = "export_repos"
                     /\ out' = out
                ELSE /\ ex' = [ex EXCEPT !.allResources = names, !.page = answer.nextPage]
                     /\ pc' = "export_list"
                     /\ out' = out
    /\ UNCHANGED <<scenario, cfg, src, tgt, file, sy, rt>>

\* the loop over repos: api.FetchRepoVariables is called
ExportNextRepo ==
    /\ pc = "export_repos"
    /\ ex.idx <= Len(ex.repos)
    /\ LET repo == ex.repos[ex.idx] IN
       IF fetchGitHubVariablesValidate(const_EntityTypeRepository, SourceOrg, repo) # EmptyStr
       THEN /\ ex' = [ex EXCEPT !.failed = @ + 1, !.idx = @ + 1]
            /\ UNCHANGED <<pc, rt>>
       ELSE /\ pc' = "export_repo"
            /\ rt' = retryWithDefaultContext([OpNone EXCEPT !.kind = "ListRepoVariables",
                                                            !.org = SourceOrg, !.repo = repo])
            /\ ex' = ex
    /\ UNCHANGED <<scenario, cfg, src, tgt, file, sy, calls, out>>

\* ExportRepoDone with a failed fetch ending the loop (break, not continue)
ExportRepoDoneBreak ==
    /\ pc = "export_repo"
    /\ rt.state = "returned"
    /\ LET repo == ex.repos[ex.idx] IN
       ex' = IF rt.ok
             THEN [ex EXCEPT !.allVariables =
                        @ \o parseVariables(rt.resp,
                                            fetchScope(const_EntityTypeRepository, repo)),
                             !.successful = @ + 1, !.idx = @ + 1]
             ELSE [ex EXCEPT !.failed = @ + 1, !.idx = Len(ex.repos) + 1]
    /\ pc' = "export_repos"
    /\ rt' = RetryIdle
    /\ UNCHANGED <<scenario, cfg, src, tgt, file, sy, calls, out>>

\* ExportRepoDone counting a repository as successful only when it has
\* variables
ExportRepoDoneEmptyUncounted ==
    /\ pc = "export_repo"
    /\ rt.state = "returned"
    /\ LET repo == ex.repos[ex.idx]
           repoVariables == parseVariables(rt.resp, fetchScope(const_EntityTypeRepository, repo))
       IN
       ex' = IF rt.ok
             THEN [ex EXCEPT !.allVariables = @ \o repoVariables,
                             !.successful = IF Len(repoVariables) > 0 THEN @ + 1 ELSE @,
                             !.idx = @ + 1]
             ELSE [ex EXCEPT !.failed = @ + 1, !.idx = @ + 1]
    /\ pc' = "export_repos"
    /\ rt' = RetryIdle
    /\ UNCHANGED <<scenario, cfg, src, tgt, file, sy, calls, out>>

\* api.FetchRepoVariables returned: failed++ or successful++
ExportRepoDone ==
    /\ pc = "export_repo"
    /\ rt.state = "returned"
    /\ LET repo == ex.repos[ex.idx] IN
       ex' = IF rt.ok
             THEN [ex EXCEPT !.allVariables =
                        @ \o parseVariables(rt.resp,
                                            fetchScope(const_EntityTypeRepository, repo)),
                             !.successful = @ + 1, !.idx = @ + 1]
             ELSE [ex EXCEPT !.failed = @ + 1, !.idx = @ + 1]
    /\ pc' = "export_repos"
    /\ rt' = RetryIdle
    /\ UNCHANGED <<scenario, cfg, src, tgt, file, sy, calls, out>>

\* after the loop: nothing to export, or the file, the summary and the exit.
\* The csv.Writer is flushed by a deferred call, which os.Exit(1) does not run:
\* the rows (shorter here than the writer's buffer) then never reach the file
\* that os.Create made.
ExportFinish ==
    /\ pc = "export_repos"
    /\ ex.idx > Len(ex.repos)
    /\ LET rows == exportRows(ex.allVariables)
           printed == [out.export EXCEPT !.summary = <<[found |-> Len(ex.repos),
                                                        successful |-> ex.successful,
                                                        failed |-> ex.failed,
                                                        written |-> Len(rows)]>>]
       IN  IF Len(ex.allVariables) = 0
           THEN /\ out' = [out EXCEPT !.export = procReturned(@, EmptyStr)]
                /\ file' = file
           ELSE IF ex.failed > 0
           THEN /\ out' = [out EXCEPT !.export = procExit(printed, 1)]
                /\ file' = [exists |-> TRUE, data |-> EmptyStr]
           ELSE /\ out' = [out EXCEPT !.export = procReturned(printed, EmptyStr)]
                /\ file' = [exists |-> TRUE, data |-> csvWriteAll(<<csvHeader>> \o rows)]
    /\ pc' = "exited"
    /\ UNCHANGED <<scenario, cfg, src, tgt, ex, sy, rt, calls>>

----------------------------------------------------------------------------
(* The command lines run *)

\* the operations the retry policy is tried with: one that may fail or succeed
\* at every attempt (for the small attempt counts), one that never answers
HarnessOps == IF cfg.retryMax <= MaxRetryMax THEN {OpHarness, OpHanging} ELSE {OpHanging}

\* retryWithDefaultContext on its own
HarnessCall ==
    /\ pc = "retry_start"
    /\ pc' = "retry_run"
    /\ \E op \in HarnessOps : rt' = retryWithDefaultContext(op)
    /\ UNCHANGED <<scenario, cfg, src, tgt, file, ex, sy, calls, out>>

HarnessReturn ==
    /\ pc = "retry_run"
    /\ rt.state = "returned"
    /\ pc' = "exited"
    /\ UNCHANGED <<scenario, cfg, src, tgt, file, ex, sy, rt, calls, out>>

\* a migration: after the export has ended, sync is run on the file it names
RunSync ==
    /\ scenario = "migrate"
    /\ pc = "exited"
    /\ out.sync.state = "notrun"
    /\ pc' = "sync_start"
    /\ out' = [out EXCEPT !.sync = ProcRunning]
    /\ UNCHANGED <<scenario, cfg, src, tgt, file, ex, sy, rt, calls>>

----------------------------------------------------------------------------
(* Initial states *)

V1 == <<"VAR1">>
V2 == <<"VAR2">>
Val1 == <<"val1">>
Val2 == <<"val2">>
\* a value of two lines, ended the Windows way
ValCRLF == <<"line1", CR, LF, "line2">>
\* a value the CSV writer has to quote
ValQuoted == <<"a", Comma, Quote, "b", LF>>
VisAll == <<"all">>
VisPrivate == <<"private">>
VisSelected == <<"selected">>
RepoA == <<"repoA">>
\* a repository may be called "organization"
RepoNamedOrganization == <<"organization">>

\* the settings of the retry policy tried on their own; after a first wait of
\* Deadline - AttemptTimeout the second attempt can be in flight at the deadline
RetryDelays == {-1, 0, 1, 100, Deadline - AttemptTimeout, Deadline}
HarnessConfigs ==
    {[retryMax |-> m, delayOk |-> FALSE, retryDelay |-> 0] : m \in -1..MaxRetryMax}
    \cup [retryMax : -1..MaxRetryMax, delayOk : {TRUE}, retryDelay : RetryDelays]
    \cup [retryMax : {MaxHangAttempts}, delayOk : {TRUE}, retryDelay : {0}]

\* the settings the commands are run with: two attempts, one second (the
\* default delay) or a whole deadline apart
RunConfigs ==
    {[retryMax |-> 2, delayOk |-> FALSE, retryDelay |-> 0],
     [retryMax |-> 2, delayOk |-> TRUE, retryDelay |-> Deadline]}

NoSource == [orgVars |-> << >>, pages |-> << << >> >>, repoVars |-> << >>]
EmptyTarget(repos) == [repos |-> repos, orgVars |-> {}, repoVars |-> {}]
NoFile == [exists |-> FALSE, data |-> EmptyStr]
NoOutput == [export |-> ProcNotRun, sync |-> ProcNotRun]

\* hand-written CSV inputs: a header of four or of three columns, then rows
DataRows ==
    {<<V1, Val1, const_EntityTypeOrg, VisAll>>,
     <<V2, Val2, RepoA, VisPrivate>>,
     <<V1, Val1, const_EntityTypeOrg, EmptyStr>>,
     <<EmptyStr, Val1, RepoA, VisPrivate>>,
     <<V2, Val2, EmptyStr, VisPrivate>>,
     <<V1, Val1, const_EntityTypeOrg>>}
Headers == {csvHeader, <<<<"Name">>, <<"Value">>, <<"Scope">>>>}

RECURSIVE SeqsUpTo(_, _)
SeqsUpTo(S, n) ==
    IF n = 0 THEN {<< >>}
    ELSE LET shorter == SeqsUpTo(S, n - 1) IN
         shorter \cup {Append(q, x) : q \in shorter, x \in S}

SyncFiles ==
    {[exists |-> TRUE, data |-> EmptyStr]}
    \cup {[exists |-> TRUE, data |-> csvWriteAll(<<h>> \o rows)] :
            h \in Headers, rows \in SeqsUpTo(DataRows, MaxRows)}

\* source organizations
OrgVariableLists ==
    {<< >>,
     <<RemoteVariable(V1, Val1, TRUE, VisAll)>>,
     <<RemoteVariable(V1, ValCRLF, TRUE, VisSelected), NilVariable,
       RemoteVariable(EmptyStr, Val2, TRUE, VisAll)>>}
RepoVariableLists ==
    {<< >>,
     <<RemoteVariable(V2, Val2, FALSE, EmptyStr)>>,
     <<RemoteVariable(V1, ValQuoted, FALSE, EmptyStr)>>}
\* (the listing does not check that a name it is given is not empty)
RepoLists ==
    {<< >>, <<RepoA>>, <<RepoNamedOrganization>>, <<RepoA, RepoNamedOrganization>>,
     <<EmptyStr, RepoA>>}

\* the listing's pages: all repositories on one page, or one page each, or
\* (a single repository) one page that also holds a null element and a
\* repository without a name
PagesOf(repos) ==
    LET entries == [i \in 1..Len(repos) |-> RepositoryEntry(repos[i])] IN
    {<<entries>>} \cup
    (IF Len(repos) > 1 THEN {[i \in 1..Len(repos) |-> <<entries[i]>>]} ELSE {}) \cup
    (IF Len(repos) = 1 THEN {<<<<NilRepository>> \o entries \o <<NamelessRepository>>>>}
     ELSE {})

RepoSet(repos) == {repos[i] : i \in 1..Len(repos)}

Sources ==
    UNION {[orgVars : OrgVariableLists, pages : PagesOf(repos),
            repoVars : [RepoSet(repos) -> RepoVariableLists]] : repos \in RepoLists}

\* the names of the repositories of a source organization
RECURSIVE Flatten(_)
Flatten(seqs) == IF Len(seqs) = 0 THEN << >> ELSE Head(seqs) \o Flatten(Tail(seqs))
sourceRepos(s) == RepoSet(pageNames(Flatten(s.pages)))

InitRetry ==
    /\ scenario = "retry"
    /\ cfg \in HarnessConfigs
    /\ src = NoSource
    /\ tgt = EmptyTarget({})
    /\ file = NoFile
    /\ pc = "retry_start"
    /\ out = NoOutput

InitSync ==
    /\ scenario = "sync"
    /\ cfg \in RunConfigs
    /\ src = NoSource
    /\ tgt \in {EmptyTarget(R) : R \in SUBSET {RepoA}}
    /\ file \in SyncFiles
    /\ pc = "sync_start"
    /\ out = [NoOutput EXCEPT !.sync = ProcRunning]

\* a migration into a fresh organization that has the same repositories
InitMigrate ==
    /\ scenario = "migrate"
    /\ cfg \in RunConfigs
    /\ src \in Sources
    /\ tgt = EmptyTarget(sourceRepos(src))
    /\ file = NoFile
    /\ pc = "export_start"
    /\ out = [NoOutput EXCEPT !.export = ProcRunning]

Init ==
    /\ InitRetry \/ InitSync \/ InitMigrate
    /\ ex = ExportIdle
    /\ sy = SyncIdle
    /\ rt = RetryIdle
    /\ calls = << >>

Next ==
    \/ HarnessCall
    \/ HarnessReturn
    \/ RetryAttempt
    \/ RetryWaitElapsed
    \/ RetryWaitCancelled
    \/ SyncStart
    \/ SyncNextRow
    \/ SyncRepoExists
    \/ SyncCreateDone
    \/ SyncSummary
    \/ ExportStart
    \/ ExportOrgDone
    \/ ExportListPage
    \/ ExportNextRepo
    \/ ExportRepoDone
    \/ ExportFinish
    \/ RunSync

Spec == Init /\ [][Next]_vars

----------------------------------------------------------------------------
(* Observations of a run that the properties speak of *)

\* the requests of the given kinds, in the order they were issued
CallsOf(kinds) == SelectSeq(calls, LAMBDA c : c.op.kind \in kinds)

\* the requests SyncVariables issued for row i
RowCalls(i) ==
    SelectSeq(calls, LAMBDA c : /\ c.item = i
                                /\ c.op.kind \in {"GetRepository", "CreateOrgVariable",
                                                  "CreateRepoVariable"})

\* the create call of row i was made and its last attempt was rejected
CreateRejected(i) ==
    LET cs == RowCalls(i) IN
    /\ Len(cs) > 0
    /\ cs[Len(cs)].op.kind \in {"CreateOrgVariable", "CreateRepoVariable"}
    /\ ~cs[Len(cs)].ok

\* how many rows counted so far have the outcome
Outcomes(outcome) == Cardinality({i \in 1..Len(sy.outcomes) : sy.outcomes[i] = outcome})

\* the rows of the input file as a reader that accepts any number of fields
\* per record (FieldsPerRecord < 0) gives them
FileRows == csvParse(csvNormalize(file.data), 1, "line", EmptyStr, << >>, << >>, -1)

----------------------------------------------------------------------------
(* The properties *)

\* C1: in SyncVariables a row of at least four columns whose scope is a
\* repository that the existence check found missing is counted as skipped and
\* not as failed; an organization row whose create the remote rejected is
\* counted as failed and not as skipped; every other repository row that did
\* not succeed is counted as failed.
C1_SyncClassification ==
    /\ sy.skipped = Outcomes("skipped")
    /\ sy.failed = Outcomes("failed")
    /\ \A i \in 1..Len(sy.outcomes) :
        LET record == syncRows(sy)[i]
            d == sy.details[i]
        IN  Len(record) >= RequiredColumns =>
            LET repoScope == record[3] # const_EntityTypeOrg IN
            /\ (repoScope /\ d.exists = "no") => sy.outcomes[i] = "skipped"
            /\ (~repoScope /\ CreateRejected(i)) => sy.outcomes[i] = "failed"
            /\ (repoScope /\ d.exists # "no" /\ d.err # EmptyStr) => sy.outcomes[i] = "failed"

\* C1 witness: a run in which an organization row was rejected by the remote
\* and counted failed, and a row for a missing repository was counted skipped
C1_Witness ==
    /\ Len(sy.outcomes) = 2
    /\ syncRows(sy)[1][3] = const_EntityTypeOrg
    /\ CreateRejected(1)
    /\ sy.outcomes[1] = "failed"
    /\ syncRows(sy)[2][3] = RepoA
    /\ sy.details[2].exists = "no"
    /\ sy.outcomes[2] = "skipped"
    /\ sy.failed = 1 /\ sy.skipped = 1

\* C2: for a CSV input whose header has four columns, a data row of fewer than
\* four columns is counted as skipped with no request made for it, every other
\* row is still processed and the summary is printed.
C2_ShortRowSkipped ==
    LET rows == FileRows.records IN
    (/\ out.sync.state = "exited"
     /\ file.exists
     /\ ~FileRows.err
     /\ Len(rows) >= 1
     /\ Len(rows[1]) = RequiredColumns
     /\ \E i \in 2..Len(rows) : Len(rows[i]) < RequiredColumns)
    => /\ out.sync.summary # << >>
       /\ Len(sy.outcomes) = Len(rows) - 1
       /\ \A i \in 1..Len(sy.outcomes) :
            Len(rows[i + 1]) < RequiredColumns =>
                sy.outcomes[i] = "skipped" /\ Len(RowCalls(i)) = 0

\* C3: for a CSV of a header and n data rows, all n rows are counted whatever
\* the outcomes of the earlier rows, the summary is printed, and the process
\* then exits non-zero exactly if a row failed.
C3_AllRowsThenExit ==
    LET rows == FileRows.records IN
    (/\ out.sync.state = "exited"
     /\ file.exists
     /\ ~FileRows.err
     /\ Len(rows) >= 1)
    => /\ out.sync.summary # << >>
       /\ Len(sy.outcomes) = Len(rows) - 1
       /\ sy.total = Len(rows) - 1
       /\ (out.sync.exitCode # 0) <=> (sy.failed > 0)

\* What holds of the loop of SyncVariables for the inputs ReadAll accepts: no
\* outcome of a row ends it, and the exit status follows the failed counter.
SyncLoopCompletes ==
    (out.sync.state = "exited" /\ Len(sy.records) >= 1)
    => /\ out.sync.summary # << >>
       /\ Len(sy.outcomes) = Len(sy.records) - 1
       /\ sy.total = Len(sy.records) - 1
       /\ (out.sync.exitCode # 0) <=> (sy.failed > 0)

\* C4: in ExportVariables, whenever a repository's fetch failed the run still
\* visits every listed repository, prints the summary and ends with a non-zero
\* status, also when no variable at all was collected.
C4_FailedExportExitsNonZero ==
    (out.export.state = "exited" /\ ex.failed > 0)
    => /\ ex.idx = Len(ex.repos) + 1
       /\ out.export.summary # << >>
       /\ out.export.exitCode # 0

\* the variables of the source organization, and those of the target
SourceVariables ==
    {[level |-> "organization", repo |-> EmptyStr, Name |-> v.Name, Value |-> v.Value,
      Visibility |-> IF v.hasVisibility THEN v.Visibility ELSE defaultVariableVisibility] :
        v \in {src.orgVars[i] : i \in {j \in 1..Len(src.orgVars) :
                    ~src.orgVars[j].isNil /\ src.orgVars[j].Name # EmptyStr}}}
    \cup UNION {
        {[level |-> "repository", repo |-> r, Name |-> v.Name, Value |-> v.Value,
          Visibility |-> IF v.hasVisibility THEN v.Visibility
                         ELSE defaultVariableVisibility] :
            v \in {src.repoVars[r][i] : i \in {j \in 1..Len(src.repoVars[r]) :
                        ~src.repoVars[r][j].isNil /\ src.repoVars[r][j].Name # EmptyStr}}} :
        r \in DOMAIN src.repoVars}
TargetVariables ==
    {[level |-> "organization", repo |-> EmptyStr, Name |-> v.Name, Value |-> v.Value,
      Visibility |-> v.Visibility] : v \in tgt.orgVars}
    \cup {[level |-> "repository", repo |-> v.Repo, Name |-> v.Name, Value |-> v.Value,
           Visibility |-> v.Visibility] : v \in tgt.repoVars}

\* C5: export, then sync of the exported file into a fresh organization with
\* the same repositories, with no remote failure, leaves the target with the
\* source's variables: same name, scope, visibility and value, a repository
\* variable on the repository of the same name, an organization variable at
\* organization level.
C5_RoundTrip ==
    (/\ scenario = "migrate"
     /\ out.sync.state = "exited"
     /\ \A i \in 1..Len(calls) : calls[i].ok)
    => TargetVariables = SourceVariables

\* A reachable input of C5: a migration with no remote failure in
\* which a repository named "organization" holds a variable
MigratedRepoNamedOrganization ==
    /\ scenario = "migrate"
    /\ out.sync.state = "exited"
    /\ \A i \in 1..Len(calls) : calls[i].ok
    /\ \E v \in SourceVariables : v.level = "repository" /\ v.repo = RepoNamedOrganization

\* the configured attempt count and base delay, as the specification names them
MaxAttempts == IF cfg.retryMax <= 0 THEN 3 ELSE cfg.retryMax
BaseDelay == IF cfg.delayOk THEN cfg.retryDelay ELSE 1

\* C6: if the operation fails exactly k times (k < MaxAttempts) and then
\* succeeds and the deadline does not fire, the policy returns success after
\* exactly k+1 attempts, makes no attempt after the successful one, and the
\* waits between the attempts are BaseDelay*2^0, ..., BaseDelay*2^(k-1) in order.
C6_RetrySucceedsAfterK ==
    (scenario = "retry" /\ Len(calls) > 0 /\ calls[Len(calls)].ok)
    => LET k == Len(calls) - 1 IN
       /\ k < MaxAttempts
       /\ \A i \in 1..k : ~calls[i].ok
       /\ \A i \in 1..(k + 1) : calls[i].attempt = i
       /\ rt.state = "returned"
       /\ rt.ok
       /\ rt.attempt = k + 1
       /\ Len(rt.waits) = k
       /\ \A i \in 1..k : rt.waits[i] = BaseDelay * Pow2(i - 1)

\* C6 witness: success at the fourth attempt, after waits of 1, 2 and 4 seconds
C6_Witness ==
    /\ scenario = "retry"
    /\ pc = "exited"
    /\ rt.ok
    /\ Len(calls) = 4
    /\ rt.waits = <<1, 2, 4>>

\* C7: if the operation always fails and the deadline does not fire, the
\* policy makes exactly MaxAttempts attempts (RETRY_MAX, or 3 when RETRY_MAX is
\* not positive), waits after none but the last, and returns an error that
\* wraps the last failure and names MaxAttempts.
C7_RetryExhausts ==
    scenario = "retry" =>
    LET exhausted == <<"operation failed after ", Itoa(MaxAttempts), " attempts: ">>
                     \o calls[Len(calls)].err
        allFailed == Len(calls) = MaxAttempts /\ \A i \in 1..Len(calls) : ~calls[i].ok
    IN  /\ Len(calls) <= MaxAttempts
        /\ allFailed => /\ rt.state = "returned"
                        /\ ~rt.ok
                        /\ rt.err = exhausted
                        /\ Len(rt.waits) = MaxAttempts - 1
        /\ (rt.state = "returned" /\ ~rt.ok /\ rt.err # errCancelled) => allFailed

\* C7 witness: RETRY_MAX = 0, three failed attempts, the last with another error
\* than the one before, which the returned error wraps
C7_Witness ==
    /\ scenario = "retry"
    /\ cfg.retryMax = 0
    /\ rt.state = "returned"
    /\ Len(calls) = 3
    /\ calls[2].err = <<"e1">>
    /\ calls[3].err = <<"e2">>
    /\ rt.err = <<"operation failed after ", "3", " attempts: ", "e2">>

\* C8: if the deadline fires while the policy is in a backoff wait, the
\* policy returns the "operation cancelled" error, which is not the
\* attempts-exhausted error, and the remaining attempts are not made.
C8_DeadlineInWaitCancels ==
    [][/\ (rt.state = "wait" /\ Max(Deadline, rt.now) < rt.now + rt.waits[Len(rt.waits)])
          => /\ rt'.state = "returned"
             /\ ~rt'.ok
             /\ rt'.err = <<"operation cancelled: ">> \o DeadlineExceeded
             /\ rt'.err # errExhausted(rt.maxRetries, rt.lastErr)
             /\ rt.attempt < rt.maxRetries
             /\ rt'.attempt = rt.attempt
             /\ calls' = calls
       /\ (scenario = "retry" /\ rt.state = "returned") => (calls' = calls /\ rt' = rt)
      ]_vars

\* C8 witness: the deadline fired during the second wait (of 200 seconds, begun
\* before the deadline); two of four attempts were made
C8_Witness ==
    /\ scenario = "retry"
    /\ pc = "exited"
    /\ rt.err = errCancelled
    /\ rt.now = Deadline
    /\ rt.waits = <<100, 200>>
    /\ Len(calls) = 2
    /\ rt.maxRetries = 4

\* C9: if the repository listing fails, ExportVariables ends at once: no
\* repository's variables are fetched, no output file is created, and the
\* organization variables already fetched are not written.
C9_ListingFailureAborts ==
    (\E i \in 1..Len(calls) : calls[i].op.kind = "ListByOrg" /\ ~calls[i].ok)
    => /\ out.export.state = "exited"
       /\ out.export.err # EmptyStr
       /\ out.export.summary = << >>
       /\ calls[Len(calls)].op.kind = "ListByOrg"
       /\ ~calls[Len(calls)].ok
       /\ CallsOf({"ListRepoVariables"}) = << >>
       /\ ~file.exists

\* C9 witness: the second page of the listing failed after the organization's
\* variables had been fetched and the first page listed
C9_Witness ==
    /\ out.export.state = "exited"
    /\ Len(ex.allVariables) > 0
    /\ \E i \in 1..Len(calls) :
        calls[i].op.kind = "ListByOrg" /\ calls[i].op.page = 2 /\ ~calls[i].ok

\* the organization fetch, or repository i's fetch, failed: its last request
\* did, or (a repository without a name) it was refused before any request
OrgFetchFailed ==
    LET cs == CallsOf({"ListOrgVariables"}) IN Len(cs) > 0 /\ ~cs[Len(cs)].ok
RepoFetchFailed(i) ==
    LET cs == SelectSeq(calls, LAMBDA c : c.op.kind = "ListRepoVariables" /\ c.item = i)
    IN  \/ Len(cs) > 0 /\ ~cs[Len(cs)].ok
        \/ Len(cs) = 0 /\ i < ex.idx /\ ex.repos[i] = EmptyStr

\* the repositories the remote lists, and the records of those among the first
\* n whose fetch did not fail
ListedRepos == pageNames(Flatten(src.pages))
RECURSIVE FetchedRepoRecords(_)
FetchedRepoRecords(n) ==
    IF n = 0 THEN << >>
    ELSE FetchedRepoRecords(n - 1)
         \o (IF RepoFetchFailed(n) THEN << >>
             ELSE parseVariables(src.repoVars[ListedRepos[n]], ListedRepos[n]))

\* C10: a failed organization fetch or repository fetch never ends the run:
\* the listing is still made after a failed organization fetch, and every
\* listed repository is queried once, in listing order, a failure adding no
\* record and, for a repository, one to the failed counter.
C10_FetchFailuresDoNotAbort ==
    /\ (OrgFetchFailed /\ out.export.state = "exited") => CallsOf({"ListByOrg"}) # << >>
    /\ (out.export.state = "exited" /\ out.export.err = EmptyStr)
       => LET first == SelectSeq(calls, LAMBDA c : c.op.kind = "ListRepoVariables"
                                                   /\ c.attempt = 1)
          IN  /\ ex.repos = ListedRepos
              /\ \A i \in 1..Len(ListedRepos) :
                    LET asked == SelectSeq(first, LAMBDA c : c.item = i) IN
                    IF ListedRepos[i] = EmptyStr THEN Len(asked) = 0
                    ELSE Len(asked) = 1 /\ asked[1].op.repo = ListedRepos[i]
              /\ \A k \in 1..(Len(first) - 1) : first[k].item < first[k + 1].item
              /\ ex.failed = Cardinality({i \in 1..Len(ListedRepos) : RepoFetchFailed(i)})
              /\ ex.allVariables =
                    (IF OrgFetchFailed THEN << >>
                     ELSE parseVariables(src.orgVars, const_EntityTypeOrg))
                    \o FetchedRepoRecords(Len(ListedRepos))

\* C10 witness: the organization fetch and the first repository's fetch failed,
\* the second repository was still queried and its variable collected
C10_Witness ==
    /\ out.export.state = "exited"
    /\ OrgFetchFailed
    /\ Len(ex.repos) = 2
    /\ RepoFetchFailed(1)
    /\ ~RepoFetchFailed(2)
    /\ ex.failed = 1
    /\ Len(ex.allVariables) = 1

\* the rows ExportVariables is to write for the records it aggregated, and the
\* records in the order the fetches gave them
RECURSIVE RowsOf(_)
RowsOf(variables) ==
    IF Len(variables) = 0 THEN << >>
    ELSE <<<<Head(variables).Name, Head(variables).Value, Head(variables).Scope,
             Head(variables).Visibility>>>> \o RowsOf(Tail(variables))
AggregatedRecords ==
    (IF OrgFetchFailed THEN << >> ELSE parseVariables(src.orgVars, const_EntityTypeOrg))
    \o FetchedRepoRecords(Len(ListedRepos))

\* ExportVariables ran to its end (the listing did not fail)
ExportEnded == out.export.state = "exited" /\ out.export.err = EmptyStr

\* C11: when ExportVariables ends with no record aggregated it ends with
\* status 0 and creates no output file; when it ends with records aggregated
\* the output file holds the header and then one row per record, the
\* organization's records first, then the repositories' in listing order.
C11_ExportOutput ==
    ExportEnded =>
        /\ ex.allVariables = AggregatedRecords
        /\ Len(ex.allVariables) = 0 => (out.export.exitCode = 0 /\ ~file.exists)
        /\ Len(ex.allVariables) > 0 =>
              /\ file.exists
              /\ file.data = csvWriteAll(<<csvHeader>> \o RowsOf(ex.allVariables))

\* What holds of the output when no repository's fetch failed
ExportOutputWithoutFailure ==
    (ExportEnded /\ ex.failed = 0) =>
        /\ ex.allVariables = AggregatedRecords
        /\ Len(ex.allVariables) = 0 => (out.export.exitCode = 0 /\ ~file.exists)
        /\ Len(ex.allVariables) > 0 =>
              /\ file.exists
              /\ file.data = csvWriteAll(<<csvHeader>> \o RowsOf(ex.allVariables))

\* the variables of a response that are neither nil nor without a name, and
\* the (Name, Value, Scope) of a sequence of records
NamedVariables(variables) ==
    SelectSeq(variables, LAMBDA v : ~v.isNil /\ v.Name # EmptyStr)
NameValueScope(records) ==
    [i \in 1..Len(records) |->
        <<records[i].Name, records[i].Value, records[i].Scope>>]
EmittedFor(variables, scope) ==
    LET named == NamedVariables(variables) IN
    [i \in 1..Len(named) |-> <<named[i].Name, named[i].Value, scope>>]
RECURSIVE EmittedForRepos(_)
EmittedForRepos(n) ==
    IF n = 0 THEN << >>
    ELSE EmittedForRepos(n - 1)
         \o (IF RepoFetchFailed(n) THEN << >>
             ELSE EmittedFor(src.repoVars[ListedRepos[n]], ListedRepos[n]))

C13_CreateOnlyAfterExistence ==
    \A i \in 1..Len(calls) :
        LET c == calls[i] IN
        /\ c.op.kind = "CreateRepoVariable" =>
              \E j \in 1..(i - 1) :
                  /\ calls[j].op.kind = "GetRepository"
                  /\ calls[j].ok
                  /\ calls[j].item = c.item
                  /\ calls[j].op.org = c.op.org
                  /\ calls[j].op.repo = c.op.repo
                  /\ \A k \in (j + 1)..(i - 1) : calls[k].op.kind = "CreateRepoVariable"
        /\ (c.op.kind = "GetRepository" /\ ~c.ok) =>
              /\ \A j \in 1..Len(calls) :
                    calls[j].item = c.item => calls[j].op.kind # "CreateRepoVariable"
              /\ Len(sy.details) >= c.item
              /\ sy.details[c.item].err =
                    <<"repository ">> \o c.op.repo \o <<" does not exist in organization ">>
                    \o c.op.org
        /\ c.op.kind = "CreateOrgVariable" =>
              \A j \in 1..Len(calls) :
                    calls[j].item = c.item => calls[j].op.kind # "GetRepository"
        /\ c.op.kind = "GetRepository" => syncRows(sy)[c.item][3] # <<"organization">>

\* C13 witness: an organization row created with no existence check, then a
\* repository row created after its check answered true
C13_Witness ==
    /\ scenario = "sync"
    /\ out.sync.state = "exited"
    /\ sy.succeeded = 2
    /\ Len(calls) = 3
    /\ calls[1].op.kind = "CreateOrgVariable"
    /\ calls[2].op.kind = "GetRepository" /\ calls[2].ok /\ calls[2].op.repo = RepoA
    /\ calls[3].op.kind = "CreateRepoVariable" /\ calls[3].ok /\ calls[3].op.repo = RepoA

\* the existence lookups made for row i
RowLookups(i) == SelectSeq(calls, LAMBDA c : c.item = i /\ c.op.kind = "GetRepository")

\* C14: the existence check before the create of a repository variable is
\* itself retried: if the lookup of a repository that exists fails fewer than
\* MaxAttempts times, it is repeated until it succeeds, the check reports that
\* the repository exists, and the create is sent.
C14_ExistenceCheckRetried ==
    \A i \in 1..Len(sy.outcomes) :
        LET lookups == RowLookups(i)
            failures == Cardinality({j \in 1..Len(lookups) : ~lookups[j].ok})
        IN  (/\ Len(lookups) > 0
             /\ lookups[1].op.repo \in tgt.repos
             /\ failures < MaxAttempts)
            => /\ lookups[Len(lookups)].ok
               /\ sy.details[i].exists = "yes"
               /\ \E j \in 1..Len(calls) :
                     calls[j].item = i /\ calls[j].op.kind = "CreateRepoVariable"

\* C15: while the target's repositories stay the same, every existence check
\* of the same organization and repository within a run gives the same
\* answer, whatever the remote answered the lookups with.
C15_ExistenceCheckIdempotent ==
    \A i, j \in 1..Len(sy.outcomes) :
        (/\ Len(RowLookups(i)) > 0
         /\ Len(RowLookups(j)) > 0
         /\ RowLookups(i)[1].op.org = RowLookups(j)[1].op.org
         /\ RowLookups(i)[1].op.repo = RowLookups(j)[1].op.repo)
        => sy.details[i].exists = sy.details[j].exists

\* the repositories of the target do not change during a run
TargetRepositoriesFixed == [][tgt'.repos = tgt.repos]_vars

\* C16: the retry envelope's deadline reaches every remote call: when it
\* fires, a request of the operation that is in flight is aborted, as a backoff
\* wait is, and the operation returns the cancellation error and not the error
\* of a timed-out request.
C16_DeadlineAbortsRequest ==
    /\ rt.now <= Deadline
    /\ (rt.state = "returned" /\ rt.now >= Deadline /\ Len(calls) > 0
        /\ ~calls[Len(calls)].ok)
       => (~rt.ok /\ rt.err = errCancelled)

\* C17: the reader and the writer check their arguments before any request:
\* with an empty organization, an empty variable name (writer) or a repository
\* target with an empty repository name they return an error and send nothing
\* (no existence check, no fetch, no create); SyncVariables counts such a row
\* as failed and goes on with the next row.
C17_ValidationBeforeRequests ==
    /\ \A entityType \in {<<"organization">>, <<"repository">>},
          org \in {EmptyStr, TargetOrg}, repo \in {EmptyStr, RepoA}, name \in {EmptyStr, V1} :
          /\ (org = EmptyStr \/ name = EmptyStr
              \/ (entityType = <<"repository">> /\ repo = EmptyStr))
             => addGitHubVariableValidate(entityType, org, repo, name) # EmptyStr
          /\ (org = EmptyStr \/ (entityType = <<"repository">> /\ repo = EmptyStr))
             => fetchGitHubVariablesValidate(entityType, org, repo) # EmptyStr
    /\ \A i \in 1..Len(calls) :
          LET op == calls[i].op IN
          /\ op.kind \notin {"operation", "hanging"} => op.org # EmptyStr
          /\ op.kind \in {"CreateOrgVariable", "CreateRepoVariable"} => op.name # EmptyStr
          /\ op.kind \in {"GetRepository", "CreateRepoVariable", "ListRepoVariables"}
             => op.repo # EmptyStr
    /\ \A i \in 1..Len(sy.outcomes) :
          LET row == syncRows(sy)[i] IN
          (Len(row) >= 4 /\ (row[1] = EmptyStr \/ row[3] = EmptyStr))
          => /\ RowCalls(i) = << >>
             /\ sy.outcomes[i] = "failed"
             /\ sy.details[i].err \in
                   {<<"organization name and variable name are required">>,
                    <<"repository name is required">>}
    /\ out.sync.summary # << >> => Len(sy.outcomes) = Len(syncRows(sy))
    /\ \A i \in 1..Len(ex.repos) :
          (i < ex.idx /\ ex.repos[i] = EmptyStr)
          => /\ SelectSeq(calls, LAMBDA c : c.op.kind = "ListRepoVariables" /\ c.item = i)
                = << >>
             /\ ex.failed >= 1

\* C17 witness: a row without a name failed with no request made for it, and
\* the row after it was created
C17_Witness ==
    /\ scenario = "sync"
    /\ out.sync.state = "exited"
    /\ Len(sy.records) = 3
    /\ sy.outcomes = <<"failed", "succeeded">>
    /\ syncRows(sy)[1][1] = EmptyStr
    /\ RowCalls(1) = << >>
    /\ Len(RowCalls(2)) = 1

\* a repository listed without a name: its fetch is refused and counted as
\* failed, the next repository is fetched
NamelessRepositoryRefused ==
    /\ ExportEnded
    /\ ex.repos = <<EmptyStr, RepoA>>
    /\ ex.failed = 1
    /\ ex.successful = 1
    /\ Len(CallsOf({"ListRepoVariables"})) = 1

\* C18: for every input file that can be opened and read as CSV, a file of a
\* header only and a file of no rows at all among them, SyncVariables reaches
\* its summary and reports total, succeeded, failed and skipped; it never ends
\* abnormally before the summary.
C18_SummaryAlwaysReached ==
    (out.sync.state = "exited" /\ file.exists /\ ~csvReadAll(file.data).err)
    => /\ ~out.sync.panic
       /\ out.sync.summary =
             <<[total |-> sy.total, succeeded |-> sy.succeeded, failed |-> sy.failed,
                skipped |-> sy.skipped]>>

\* What holds when the file has at least its header: the summary is reached
SummaryReachedWithHeader ==
    (out.sync.state = "exited" /\ file.exists /\ ~csvReadAll(file.data).err
     /\ Len(csvReadAll(file.data).records) >= 1)
    => /\ ~out.sync.panic
       /\ out.sync.summary =
             <<[total |-> sy.total, succeeded |-> sy.succeeded, failed |-> sy.failed,
                skipped |-> sy.skipped]>>

\* a file of a header only: the summary reports four zeros
HeaderOnlySummarized ==
    /\ scenario = "sync"
    /\ out.sync.state = "exited"
    /\ Len(sy.records) = 1
    /\ out.sync.summary = <<[total |-> 0, succeeded |-> 0, failed |-> 0, skipped |-> 0]>>

\* the file of the two rows VAR1,val1,organization,all and VAR2,val2,repoA,private
TwoRowFile ==
    csvWriteAll(<<csvHeader, <<V1, Val1, <<"organization">>, VisAll>>,
                  <<V2, Val2, RepoA, VisPrivate>>>>)

\* C19: in SyncVariables total = succeeded + failed + skipped after every
\* row; a row adds one to total and one to exactly one of the three counters;
\* at the summary total is the number of data rows, the header not counted.
\* For the header and the rows VAR1,val1,organization,all and
\* VAR2,val2,repoA,private the summary is 2/2/0/0 when every request succeeds
\* and 2/1/0/1 when repoA is missing.
C19_CountersAddUp ==
    /\ [](sy.idx >= 1 =>
            LET sum == sy.succeeded + sy.failed + sy.skipped IN
            /\ sum = sy.idx - 1
            /\ sum = Len(sy.outcomes)
            /\ sy.total = IF pc \in {"sync_exists", "sync_create"} THEN sum + 1 ELSE sum
            /\ out.sync.summary # << >> =>
                  /\ sy.total = Len(FileRows.records) - 1
                  /\ out.sync.summary[1].total = sy.total
                  /\ (/\ file.data = TwoRowFile
                      /\ RepoA \in tgt.repos
                      /\ \A i \in 1..Len(calls) : calls[i].ok)
                     => out.sync.summary[1] = [total |-> 2, succeeded |-> 2,
                                               failed |-> 0, skipped |-> 0]
                  /\ (/\ file.data = TwoRowFile
                      /\ RepoA \notin tgt.repos
                      /\ \A i \in 1..Len(calls) :
                            calls[i].op.kind # "GetRepository" => calls[i].ok)
                     => out.sync.summary[1] = [total |-> 2, succeeded |-> 1,
                                               failed |-> 0, skipped |-> 1])
    /\ [][sy.idx >= 1 =>
            LET ds == sy'.succeeded - sy.succeeded
                df == sy'.failed - sy.failed
                dk == sy'.skipped - sy.skipped
            IN  /\ {ds, df, dk} \subseteq {0, 1}
                /\ ds + df + dk = sy'.idx - sy.idx
                /\ sy'.idx - sy.idx \in {0, 1}
                /\ sy'.total - sy.total \in {0, 1}
                /\ sy'.idx = sy.idx + 1 => sy'.total = sy.idx]_vars

\* C19 witness: the two rows, repoA missing: total 2, succeeded 1, skipped 1
C19_Witness ==
    /\ scenario = "sync"
    /\ file.data = TwoRowFile
    /\ RepoA \notin tgt.repos
    /\ out.sync.summary = <<[total |-> 2, succeeded |-> 1, failed |-> 0, skipped |-> 1]>>

\* the two rows, repoA present, every request answered: total 2, succeeded 2
TwoRowsSucceeded ==
    /\ scenario = "sync"
    /\ file.data = TwoRowFile
    /\ RepoA \in tgt.repos
    /\ out.sync.summary = <<[total |-> 2, succeeded |-> 2, failed |-> 0, skipped |-> 0]>>

\* C20: once the deadline of the retry envelope has elapsed no further
\* attempt is started and the policy returns the cancellation error, whatever
\* MaxAttempts and BaseDelay are (a BaseDelay of zero included), whether the
\* deadline elapsed during an attempt or during a wait.
C20_NoAttemptAfterDeadline ==
    [][(/\ rt.state = "wait"
        /\ \/ rt.now > Deadline
           \/ rt.now + rt.waits[Len(rt.waits)] > Deadline)
       => /\ rt'.state = "returned"
          /\ ~rt'.ok
          /\ rt'.err = <<"operation cancelled: ">> \o DeadlineExceeded
          /\ calls' = calls]_vars

\* What holds when the wait is longer than nothing: with the deadline over, at
\* the start of the wait or before its end, the policy returns the cancellation
PositiveWaitCancelledAfterDeadline ==
    [][(/\ rt.state = "wait"
        /\ rt.waits[Len(rt.waits)] > 0
        /\ \/ rt.now > Deadline
           \/ rt.now + rt.waits[Len(rt.waits)] > Deadline)
       => /\ rt'.state = "returned"
          /\ ~rt'.ok
          /\ rt'.err = <<"operation cancelled: ">> \o DeadlineExceeded
          /\ calls' = calls]_vars

\* the deadline elapsed during an attempt that failed, and the wait after it is
\* longer than nothing
DeadlineElapsedInAttempt ==
    /\ rt.state = "wait"
    /\ rt.now > Deadline
    /\ rt.waits[Len(rt.waits)] > 0

----------------------------------------------------------------------------
(* The backoff at the width of time.Duration: a duration is a signed 64-bit
   count of nanoseconds, here a word of DurationBits bits in two's
   complement *)

DurationBits == 64
MaxBackoffAttempts == 70

\* a word is eight bytes, the least significant first
Byte == Pow2(8)
SignByte == Pow2(7)

\* the word of a natural number below 2^31
Word(n) ==
    <<n % Byte, (n \div Byte) % Byte, (n \div Pow2(16)) % Byte, n \div Pow2(24),
      0, 0, 0, 0>>

\* x + y on int64, wrapping around
add64(x, y) ==
    LET s1 == x[1] + y[1]
        s2 == x[2] + y[2] + (s1 \div Byte)
        s3 == x[3] + y[3] + (s2 \div Byte)
        s4 == x[4] + y[4] + (s3 \div Byte)
        s5 == x[5] + y[5] + (s4 \div Byte)
        s6 == x[6] + y[6] + (s5 \div Byte)
        s7 == x[7] + y[7] + (s6 \div Byte)
        s8 == x[8] + y[8] + (s7 \div Byte)
    IN <<s1 % Byte, s2 % Byte, s3 % Byte, s4 % Byte,
         s5 % Byte, s6 % Byte, s7 % Byte, s8 % Byte>>

\* time.Duration(1 << n): the bit pushed past the top is lost, a count of 64
\* or more leaves zero
oneShiftedLeft(n) ==
    LET byte(k) == IF n < DurationBits /\ k = (n \div 8) + 1 THEN Pow2(n % 8) ELSE 0
    IN <<byte(1), byte(2), byte(3), byte(4), byte(5), byte(6), byte(7), byte(8)>>

\* x * y on int64, wrapping around: the columns of the long multiplication
\* that lie within the word
RECURSIVE column(_, _, _, _)
column(x, y, k, i) == IF i > k THEN 0 ELSE x[i] * y[k + 1 - i] + column(x, y, k, i + 1)
multiply64(x, y) ==
    LET t1 == column(x, y, 1, 1)
        t2 == column(x, y, 2, 1) + (t1 \div Byte)
        t3 == column(x, y, 3, 1) + (t2 \div Byte)
        t4 == column(x, y, 4, 1) + (t3 \div Byte)
        t5 == column(x, y, 5, 1) + (t4 \div Byte)
        t6 == column(x, y, 6, 1) + (t5 \div Byte)
        t7 == column(x, y, 7, 1) + (t6 \div Byte)
        t8 == column(x, y, 8, 1) + (t7 \div Byte)
    IN <<t1 % Byte, t2 % Byte, t3 % Byte, t4 % Byte,
         t5 % Byte, t6 % Byte, t7 % Byte, t8 % Byte>>

isNegative(w) == w[8] >= SignByte

\* x < y on int64
less64(x, y) ==
    LET kx == [i \in 1..8 |-> IF i = 1 THEN (x[8] + SignByte) % Byte ELSE x[9 - i]]
        ky == [i \in 1..8 |-> IF i = 1 THEN (y[8] + SignByte) % Byte ELSE y[9 - i]]
    IN \E i \in 1..8 : kx[i] < ky[i] /\ \A k \in 1..(i - 1) : kx[k] = ky[k]
max64(x, y) == IF less64(x, y) THEN y ELSE x

\* n * time.Second
Seconds64(n) == multiply64(Word(n), Word(1000000000))
\* the largest duration
MaxDuration ==
    <<Byte - 1, Byte - 1, Byte - 1, Byte - 1, Byte - 1, Byte - 1, Byte - 1, SignByte - 1>>

\* waitTime := retryDelay * time.Duration(1<<uint(attempt-1)), both int64
waitTime64(retryDelay, attempt) ==
    multiply64(retryDelay, oneShiftedLeft(attempt - 1))

\* time.ParseDuration(viper.GetString("RETRY_DELAY")), time.Second when it fails
retryDelay64(c) == IF c.delayOk THEN c.retryDelay ELSE Seconds64(DefaultRetryDelay)

\* the loop of retryWithExponentialBackoff with its clock in nanoseconds
BackoffStart(c) ==
    [state |-> "attempt", attempt |-> 1, maxRetries |-> maxRetriesOf(c),
     retryDelay |-> retryDelay64(c), now |-> Word(0), waits |-> << >>]

\* when the two channels of the select become ready: time.After fires at once
\* for a wait that is not positive, and never within the clock's range when
\* now + wait passes the largest duration; ctx is done at its deadline
timerReadyAt64(r) ==
    LET w == r.waits[Len(r.waits)] IN
    IF isNegative(w) THEN r.now
    ELSE IF isNegative(add64(r.now, w)) THEN MaxDuration
    ELSE add64(r.now, w)
ctxDoneAt64(r) == max64(Seconds64(Deadline), r.now)

\* the time an operation takes: none to speak of, or a whole request timeout
BackoffCallDurations == {Word(0), Seconds64(AttemptTimeout)}

\* one pass of the loop body: operation() ran for d and returned ok or an error
BackoffAttempt ==
    /\ scenario = "backoff"
    /\ rt.state = "attempt"
    /\ \E d \in BackoffCallDurations, ok \in BOOLEAN :
        rt' = IF ok THEN [rt EXCEPT !.state = "returned", !.now = add64(@, d)]
              ELSE IF rt.attempt < rt.maxRetries
              THEN [rt EXCEPT !.state = "wait", !.now = add64(@, d),
                              !.waits = Append(@, waitTime64(rt.retryDelay, rt.attempt))]
              ELSE [rt EXCEPT !.state = "returned", !.now = add64(@, d)]
    /\ UNCHANGED <<scenario, cfg, src, tgt, file, pc, ex, sy, calls, out>>

\* BackoffWaitElapsed as a plain time.Sleep(waitTime), blind to ctx.Done()
BackoffWaitSleep ==
    /\ scenario = "backoff"
    /\ rt.state = "wait"
    /\ timerReadyAt64(rt) # MaxDuration
    /\ rt' = [rt EXCEPT !.state = "attempt", !.attempt = @ + 1, !.now = timerReadyAt64(rt)]
    /\ UNCHANGED <<scenario, cfg, src, tgt, file, pc, ex, sy, calls, out>>

\* select, case <-time.After(waitTime): continue
BackoffWaitElapsed ==
    /\ scenario = "backoff"
    /\ rt.state = "wait"
    /\ ~less64(ctxDoneAt64(rt), timerReadyAt64(rt))
    /\ rt' = [rt EXCEPT !.state = "attempt", !.attempt = @ + 1, !.now = timerReadyAt64(rt)]
    /\ UNCHANGED <<scenario, cfg, src, tgt, file, pc, ex, sy, calls, out>>

\* select, case <-ctx.Done(): return "operation cancelled"
BackoffWaitCancelled ==
    /\ scenario = "backoff"
    /\ rt.state = "wait"
    /\ ~less64(timerReadyAt64(rt), ctxDoneAt64(rt))
    /\ rt' = [rt EXCEPT !.state = "returned", !.now = ctxDoneAt64(rt)]
    /\ UNCHANGED <<scenario, cfg, src, tgt, file, pc, ex, sy, calls, out>>

\* the settings: RETRY_MAX unset, small or large; RETRY_DELAY unreadable (one
\* second is taken), one nanosecond, one millisecond, 2^62 nanoseconds or the
\* largest duration
BackoffConfigs ==
    {[retryMax |-> m, delayOk |-> FALSE, retryDelay |-> Word(0)] :
        m \in {0, 2, MaxBackoffAttempts}}
    \cup [retryMax : {0, 2, MaxBackoffAttempts}, delayOk : {TRUE},
          retryDelay : {Word(1), Word(1000000), oneShiftedLeft(DurationBits - 2),
                        MaxDuration}]

InitBackoff ==
    /\ scenario = "backoff"
    /\ cfg \in BackoffConfigs
    /\ rt = BackoffStart(cfg)
    /\ src = NoSource
    /\ tgt = EmptyTarget({})
    /\ file = NoFile
    /\ pc = "backoff"
    /\ out = NoOutput
    /\ ex = ExportIdle
    /\ sy = SyncIdle
    /\ calls = << >>

NextBackoff ==
    \/ BackoffAttempt
    \/ BackoffWaitElapsed
    \/ BackoffWaitCancelled

SpecBackoff == InitBackoff /\ [][NextBackoff]_vars

\* twice the int64 x is a number an int64 holds: x lies in 0 .. 2^62 - 1
doubleFits(x) == x[8] < SignByte \div 2

\* C21: in retryWithExponentialBackoff, for every RETRY_MAX and every positive
\* RETRY_DELAY, the wait computed after attempt a (1 <= a < MaxAttempts) in
\* 64-bit nanoseconds with the factor 1 << (a-1) is the number
\* BaseDelay * 2^(a-1): it is positive and twice the wait before it.
C21_WaitsDouble ==
    scenario = "backoff" =>
        \A a \in 1..Len(rt.waits) :
            /\ a < rt.maxRetries
            /\ ~isNegative(rt.waits[a]) /\ rt.waits[a] # Word(0)
            /\ a = 1 => rt.waits[a] = rt.retryDelay
            /\ a > 1 =>
                /\ doubleFits(rt.waits[a - 1])
                /\ rt.waits[a] = add64(rt.waits[a - 1], rt.waits[a - 1])
                /\ less64(rt.waits[a - 1], rt.waits[a])

\* attempt 36 is reached after thirty-five waits; had the delay been the
\* default second, the thirty-fifth product would not fit 64 bits
C21_Witness ==
    /\ scenario = "backoff"
    /\ rt.state = "attempt"
    /\ rt.attempt = 36
    /\ Len(rt.waits) = 35
    /\ rt.waits[35] = <<0, 0, 0, 0, 4, 0, 0, 0>>

----------------------------------------------------------------------------
(* The listing *)

\* the requests of the listing, and the entries of all the remote's pages that
\* are neither null nor without a name
ListingCalls == CallsOf({"ListByOrg"})
NamedEntries == SelectSeq(Flatten(src.pages), LAMBDA e : ~e.isNil /\ e.hasName)
ListingEnded == scenario = "migrate" /\ pc \notin {"export_start", "export_org", "export_list"}

\* C22: listPaginatedRepositories asks for 100 entries per page, the first
\* request without a page number and each following one with the NextPage of
\* the response before it; every page is fetched once; the loop stops at the
\* response whose NextPage is 0 and the result is then, in page order, the
\* names of all entries that are neither null nor without a name; a response
\* whose payload is nil makes the listing fail with no names.
C22_ListingResult ==
    LET L == ListingCalls IN
    /\ Len(L) <= Len(src.pages)
    /\ \A k \in 1..Len(L) :
        /\ L[k].op.perPage = PerPage
        /\ L[k].op.page = (IF k = 1 THEN 0 ELSE k)
        /\ L[k].attempt = 1
        /\ k < Len(L) => L[k].ok
    /\ (ListingEnded /\ L[Len(L)].ok) =>
        /\ Len(L) = Len(src.pages)
        /\ Len(ex.repos) = Len(NamedEntries)
        /\ \A i \in 1..Len(ex.repos) : ex.repos[i] = NamedEntries[i].name
    /\ (ListingEnded /\ ~L[Len(L)].ok) =>
        /\ ex.allResources = << >> /\ ex.repos = << >>
        /\ out.export.state = "exited"
        /\ L[Len(L)].err = EmptyStr =>
            out.export.err = <<"failed to fetch repositories: ">> \o errNoData

\* C22 witness: the listing ended well on a page that held a null element, a
\* named repository and a repository without a name
C22_Witness ==
    /\ ListingEnded
    /\ ListingCalls[Len(ListingCalls)].ok
    /\ Len(Flatten(src.pages)) = 3
    /\ ex.repos = <<RepoA>>

\* a listing of two pages ended well
ListingOfTwoPages ==
    /\ ListingEnded
    /\ Len(ListingCalls) = 2
    /\ ListingCalls[2].ok
    /\ Len(ex.repos) = 2

\* a listing failed on a nil payload after a first page had been listed
ListingNilPayload ==
    /\ ListingEnded
    /\ Len(ListingCalls) = 2
    /\ ~ListingCalls[2].ok /\ ListingCalls[2].err = EmptyStr

\* C23: doesRepositoryExist turns every failed lookup, whatever the error,
\* into "does not exist" and propagates no error: in SyncVariables a
\* repository row whose lookup failed is counted as skipped and never as
\* failed, the error it is counted by is the "does not exist" one, and no
\* create call is issued for it.
C23_FailedLookupSkips ==
    /\ sy.skipped = Outcomes("skipped")
    /\ sy.failed = Outcomes("failed")
    /\ \A i \in 1..Len(calls) :
        LET c == calls[i] IN
        (c.op.kind = "GetRepository" /\ ~c.ok) =>
            /\ c.err \in {TransportError, NotFoundError}
            /\ Len(sy.outcomes) >= c.item
            /\ sy.outcomes[c.item] = "skipped"
            /\ sy.details[c.item].exists = "no"
            /\ sy.details[c.item].err = errRepositoryNotFound(c.op.repo, c.op.org)
            /\ Len(RowCalls(c.item)) = 1

\* C23 witness: the lookup of a repository the target has failed in transport;
\* the row was counted skipped, the run ended with the summary and status 0
C23_Witness ==
    /\ scenario = "sync"
    /\ out.sync.state = "exited" /\ out.sync.exitCode = 0
    /\ Len(out.sync.summary) = 1
    /\ sy.skipped = 1 /\ sy.failed = 0
    /\ Len(calls) = 1
    /\ calls[1].op.kind = "GetRepository" /\ calls[1].err = TransportError
    /\ calls[1].op.repo \in tgt.repos

\* the errors the retry policy returns for a create: the cancellation, or the
\* exhaustion of the attempts on one of the remote's errors
RetryErrors ==
    {errCancelled} \cup
    {errExhausted(MaxAttempts, e) : e \in {TransportError, ConflictError, NotFoundError}}

\* C24: when the retry policy ends the create call of a record with the
\* cancellation error or with the attempts-exhausted error, SyncVariables
\* counts that one record as failed, never as skipped or succeeded, and goes
\* on to the next record: the loop ends only after every record is counted.
C24_RetryErrorFailsOneRecord ==
    /\ sy.failed = Outcomes("failed")
    /\ \A i \in 1..Len(sy.outcomes) :
        LET record == syncRows(sy)[i] IN
        CreateRejected(i) =>
            /\ sy.outcomes[i] = "failed"
            /\ \E inner \in RetryErrors :
                sy.details[i].err = errCreateFailed(syncEntityType(record[3]), record[1], inner)
    /\ pc = "sync_rows" => sy.idx = Len(sy.outcomes) + 1
    /\ (out.sync.state = "exited" /\ Len(sy.records) > 0) =>
            Len(sy.outcomes) = Len(syncRows(sy))

\* C24 witness: the create of the first of two records was cancelled in its
\* backoff wait, the record was counted failed, and the second record was
\* created
C24_Witness ==
    /\ scenario = "sync"
    /\ out.sync.state = "exited"
    /\ sy.outcomes = <<"failed", "succeeded">>
    /\ sy.details[1].err = errCreateFailed(const_EntityTypeOrg, V1, errCancelled)
    /\ sy.failed = 1 /\ sy.succeeded = 1

\* the create of the first of two records used up its attempts, and the second
\* record was still counted
ExhaustedThenNextRecord ==
    /\ scenario = "sync"
    /\ out.sync.state = "exited"
    /\ Len(sy.outcomes) = 2
    /\ sy.outcomes[1] = "failed"
    /\ sy.details[1].err =
          errCreateFailed(const_EntityTypeOrg, V1, errExhausted(MaxAttempts, TransportError))

\* the requests of SyncVariables and those of ExportVariables' repository loop
SyncKinds == {"GetRepository", "CreateOrgVariable", "CreateRepoVariable"}
ExportLoopKinds == {"ListRepoVariables"}
SamePhase(a, b) ==
    \/ a.op.kind \in SyncKinds /\ b.op.kind \in SyncKinds
    \/ a.op.kind \in ExportLoopKinds /\ b.op.kind \in ExportLoopKinds

\* C25: the orchestrators run strictly in sequence: no operation of the retry
\* policy is pending when an orchestrator moves between items; the requests
\* for item i+1 are issued only after item i has been counted; the items are
\* taken in the order of the source (the file's records, the listed
\* repositories); and a request is repeated only by the retry policy, as the
\* next attempt right after a failed attempt of the same operation.
C25_Sequential ==
    /\ (scenario # "retry" /\ pc \notin {"export_org", "export_repo", "sync_create"})
            => rt.state = "idle"
    /\ \A i \in 1..Len(calls) :
        LET c == calls[i] IN
        /\ c.op.kind \in SyncKinds =>
            /\ c.item <= Len(sy.outcomes) + 1
            /\ c.item \in 1..Len(syncRows(sy))
            /\ c.op.kind # "GetRepository" =>
                  /\ c.op.name = syncRows(sy)[c.item][1]
                  /\ c.op.value = syncRows(sy)[c.item][2]
            /\ c.op.kind # "CreateOrgVariable" => c.op.repo = syncRows(sy)[c.item][3]
        /\ c.op.kind \in ExportLoopKinds =>
            /\ c.item <= ex.successful + ex.failed + 1
            /\ c.item \in 1..Len(ex.allResources)
            /\ c.op.repo = ex.allResources[c.item]
        /\ i > 1 =>
            LET b == calls[i - 1] IN
            IF c.attempt > 1
            THEN /\ c.op = b.op /\ c.item = b.item
                 /\ c.attempt = b.attempt + 1
                 /\ ~b.ok
            ELSE /\ SamePhase(b, c) => b.item <= c.item
                 /\ ~(b.op = c.op /\ b.item = c.item)
        /\ (c.attempt = 1 /\ c.op.kind \notin {"operation", "hanging"}) =>
              \A j \in 1..(i - 1) :
                  ~(calls[j].op = c.op /\ calls[j].item = c.item /\ calls[j].attempt = 1)

\* C25 witness: two records; the first create failed once and was repeated by
\* the retry policy, then the second record's lookup and create followed
C25_Witness ==
    /\ scenario = "sync"
    /\ out.sync.state = "exited"
    /\ Len(calls) = 4
    /\ calls[1].item = 1 /\ calls[1].attempt = 1 /\ ~calls[1].ok
    /\ calls[2].item = 1 /\ calls[2].attempt = 2 /\ calls[2].ok
    /\ calls[3].item = 2 /\ calls[3].op.kind = "GetRepository"
    /\ calls[4].item = 2 /\ calls[4].op.kind = "CreateRepoVariable"
    /\ sy.outcomes = <<"succeeded", "succeeded">>

\* an export whose two repositories were queried in listing order, the first
\* one twice
ExportInListingOrder ==
    /\ out.export.state = "exited"
    /\ Len(ex.allResources) = 2
    /\ LET cs == CallsOf(ExportLoopKinds) IN
        /\ Len(cs) = 3
        /\ cs[1].item = 1 /\ cs[2].item = 1 /\ cs[2].attempt = 2 /\ cs[3].item = 2

\* the repositories the export loop is done with
ReposProcessed == IF ex.idx = 0 THEN 0 ELSE ex.idx - 1

\* C26: in ExportVariables successful + failed is the number of repositories
\* processed so far; a repository adds one to exactly one of the two counters:
\* to failed when its fetch failed, to successful otherwise, also when the
\* fetch gave no variables; at the summary successful + failed is the number of
\* repositories found.
C26_ExportCounters ==
    /\ [](/\ ex.successful + ex.failed = ReposProcessed
          /\ ex.failed = Cardinality({i \in 1..ReposProcessed : RepoFetchFailed(i)})
          /\ ex.successful = Cardinality({i \in 1..ReposProcessed : ~RepoFetchFailed(i)})
          /\ out.export.summary # << >> =>
                LET summary == out.export.summary[1] IN
                /\ summary.successful = ex.successful /\ summary.failed = ex.failed
                /\ summary.found = Len(ex.allResources)
                /\ summary.successful + summary.failed = summary.found)
    /\ [][LET ds == ex'.successful - ex.successful
              df == ex'.failed - ex.failed
          IN  /\ {ds, df} \subseteq {0, 1}
              /\ ds + df = (IF ex.idx = 0 THEN 0 ELSE ex'.idx - ex.idx)]_vars

\* C26 witness: a repository whose fetch succeeded without variables was
\* counted successful, and the summary says one found, one successful
C26_Witness ==
    /\ out.export.summary # << >>
    /\ out.export.summary[1].found = 1
    /\ out.export.summary[1].successful = 1
    /\ out.export.summary[1].failed = 0
    /\ Len(ex.allResources) = 1
    /\ src.repoVars[ex.allResources[1]] = << >>

\* a summary of two repositories, one fetched and one failed
SummaryOneEach ==
    /\ out.export.summary # << >>
    /\ out.export.summary[1].found = 2
    /\ out.export.summary[1].successful = 1
    /\ out.export.summary[1].failed = 1

\* C27: the listing is all-or-nothing and makes one attempt per page: when the
\* fetch of a page returns an error, no name is kept, those of the earlier
\* pages included, the page is not fetched again and nothing else is
\* requested, and ExportVariables ends with that error wrapped in "failed to
\* fetch repositories".
C27_ListingAllOrNothing ==
    \A i \in 1..Len(calls) :
        LET c == calls[i] IN
        (c.op.kind = "ListByOrg" /\ c.err # EmptyStr) =>
            /\ ~c.ok
            /\ c.attempt = 1
            /\ i = Len(calls)
            /\ \A j \in 1..(i - 1) : calls[j].op.kind = "ListByOrg" => calls[j].op.page # c.op.page
            /\ ex.allResources = << >>
            /\ ex.repos = << >>
            /\ ex.successful = 0 /\ ex.failed = 0
            /\ out.export.state = "exited"
            /\ out.export.err = <<"failed to fetch repositories: ">> \o c.err
            /\ out.export.summary = << >>

\* C27 witness: the first page gave a repository's name, the fetch of the
\* second page returned an error, and the run ended with no name kept
C27_Witness ==
    /\ out.export.state = "exited"
    /\ Len(ListingCalls) = 2
    /\ ListingCalls[1].ok
    /\ pageNames(src.pages[1]) # << >>
    /\ ListingCalls[2].err = TransportError
    /\ ex.allResources = << >>

\* what the reader is to make of a response: for each variable that is not
\* nil and has a name, its name, its value and its visibility, or "private"
\* when the remote gave none
ReadFrom(variables) ==
    LET named == NamedVariables(variables) IN
    [i \in 1..Len(named) |->
        <<named[i].Name, named[i].Value,
          IF named[i].hasVisibility THEN named[i].Visibility ELSE <<"private">>>>]
RECURSIVE ReadFromRepos(_)
ReadFromRepos(n) ==
    IF n = 0 THEN << >>
    ELSE ReadFromRepos(n - 1)
         \o (IF RepoFetchFailed(n) THEN << >> ELSE ReadFrom(src.repoVars[ListedRepos[n]]))

\* C28: a record of the reader carries the remote variable's visibility when
\* the remote gave one and "private" when it gave none; the writer sends a
\* record's visibility as it is when it is not empty and "private" when it is
\* empty; name and value pass unchanged through both.
C28_VisibilityDefault ==
    /\ ExportEnded =>
        [i \in 1..Len(ex.allVariables) |->
            <<ex.allVariables[i].Name, ex.allVariables[i].Value,
              ex.allVariables[i].Visibility>>]
        = (IF OrgFetchFailed THEN << >> ELSE ReadFrom(src.orgVars))
          \o ReadFromRepos(Len(ListedRepos))
    /\ \A i \in 1..Len(calls) :
        LET c == calls[i] IN
        c.op.kind \in {"CreateOrgVariable", "CreateRepoVariable"} =>
            LET record == syncRows(sy)[c.item] IN
            /\ c.op.name = record[1]
            /\ c.op.value = record[2]
            /\ c.op.visibility = (IF record[4] = EmptyStr THEN <<"private">> ELSE record[4])
            /\ c.ok => \E v \in TargetVariables :
                          /\ v.Name = record[1] /\ v.Value = record[2]
                          /\ v.Visibility = c.op.visibility

\* C28 witness: a migration in which the organization's variable came with
\* the visibility "all" and the repository's with none: the file's records say
\* "all" and "private", and so do the creates sent to the target
C28_Witness ==
    /\ scenario = "migrate"
    /\ out.sync.state = "exited"
    /\ Len(ex.allVariables) = 2
    /\ Len(src.orgVars) = 1
    /\ src.orgVars[1].hasVisibility /\ ex.allVariables[1].Visibility = VisAll
    /\ DOMAIN src.repoVars = {RepoA}
    /\ Len(src.repoVars[RepoA]) = 1
    /\ ~src.repoVars[RepoA][1].hasVisibility
    /\ ex.allVariables[2].Visibility = <<"private">>
    /\ \E v \in tgt.orgVars : v.Visibility = VisAll
    /\ \E v \in tgt.repoVars : v.Visibility = <<"private">>

\* a record with an empty visibility was created as "private"
EmptyVisibilityCreatedPrivate ==
    /\ scenario = "sync"
    /\ Len(calls) = 1
    /\ calls[1].ok
    /\ syncRows(sy)[1][4] = EmptyStr
    /\ calls[1].op.visibility = <<"private">>

----------------------------------------------------------------------------
(* The proxy function of the HTTP transport *)

Whitespace == {Space, CR, LF, "\t"}

\* strings.Split(s, sep) for a separator of one character
RECURSIVE stringsSplitFrom(_, _, _)
stringsSplitFrom(s, sep, field) ==
    IF Len(s) = 0 THEN <<field>>
    ELSE IF Head(s) = sep THEN <<field>> \o stringsSplitFrom(Tail(s), sep, EmptyStr)
    ELSE stringsSplitFrom(Tail(s), sep, Append(field, Head(s)))
stringsSplit(s, sep) == stringsSplitFrom(s, sep, EmptyStr)

RECURSIVE trimLeft(_)
trimLeft(s) == IF Len(s) > 0 /\ Head(s) \in Whitespace THEN trimLeft(Tail(s)) ELSE s
RECURSIVE trimRight(_)
trimRight(s) ==
    IF Len(s) > 0 /\ s[Len(s)] \in Whitespace THEN trimRight(SubSeq(s, 1, Len(s) - 1)) ELSE s

\* stringsTrimSpace trimming the front only
stringsTrimSpaceLeft(s) == trimLeft(s)

\* strings.TrimSpace(s)
stringsTrimSpace(s) == trimRight(trimLeft(s))

\* what the proxy function returns: (nil, nil), or url.Parse's (url, nil) or
\* (nil, err): the text is the URL, unless it starts with a colon ("missing
\* protocol scheme")
NoProxyResult == [url |-> EmptyStr, err |-> FALSE]
urlParse(s) ==
    IF Len(s) > 0 /\ Head(s) = ":" THEN [url |-> EmptyStr, err |-> TRUE]
    ELSE [url |-> s, err |-> FALSE]

\* the function buildProxyFunction(proxyConfig) returns, applied to req
buildProxyFunction(proxyConfig, req) ==
    LET noProxyURLs == stringsSplit(proxyConfig.NoProxy, Comma) IN
    IF /\ proxyConfig.NoProxy # EmptyStr
       /\ \E i \in 1..Len(noProxyURLs) : stringsTrimSpace(noProxyURLs[i]) = req.Host
    THEN NoProxyResult
    ELSE IF req.Scheme = <<"https">> /\ proxyConfig.HTTPSProxy # EmptyStr
    THEN urlParse(proxyConfig.HTTPSProxy)
    ELSE IF req.Scheme = <<"http">> /\ proxyConfig.HTTPProxy # EmptyStr
    THEN urlParse(proxyConfig.HTTPProxy)
    ELSE NoProxyResult

\* the hosts and proxies of the runs
HostGitHub == <<"api.github.com">>
HostEnterprise == <<"ghe.example.com", ":", "8443">>
HostUploads == <<"uploads.github.com">>
ProxyForHTTP == <<"http://", "proxy-a", ":", "3128">>
ProxyForHTTPS == <<"http://", "proxy-b", ":", "3128">>
ProxyUnparsable == <<":", "3128">>

\* NO_PROXY: unset; one host; two hosts with a blank after the comma or before
\* it; two hosts with a blank but no comma between them; a lone comma
NoProxyLists ==
    {EmptyStr,
     HostGitHub,
     HostEnterprise \o <<Comma, Space>> \o HostGitHub,
     HostGitHub \o <<Space, Comma>> \o HostEnterprise,
     HostGitHub \o <<Space>> \o HostEnterprise,
     <<Comma>>}
ProxyConfigs ==
    [HTTPProxy : {EmptyStr, ProxyForHTTP, ProxyUnparsable},
     HTTPSProxy : {EmptyStr, ProxyForHTTPS, ProxyUnparsable},
     NoProxy : NoProxyLists]
ProxyRequests ==
    [Scheme : {<<"https">>, <<"http">>, <<"ftp">>},
     Host : {HostGitHub, HostEnterprise, HostUploads}]

\* the transport asks the proxy function about a request
ProxyRequest ==
    /\ scenario = "proxy"
    /\ rt.state = "idle"
    /\ \E req \in ProxyRequests :
        rt' = [rt EXCEPT !.state = "asked", !.req = req,
                         !.proxy = buildProxyFunction(cfg, req)]
    /\ UNCHANGED <<scenario, cfg, src, tgt, file, pc, ex, sy, calls, out>>

InitProxy ==
    /\ scenario = "proxy"
    /\ cfg \in ProxyConfigs
    /\ rt = [state |-> "idle", req |-> [Scheme |-> EmptyStr, Host |-> EmptyStr],
             proxy |-> NoProxyResult]
    /\ src = NoSource
    /\ tgt = EmptyTarget({})
    /\ file = NoFile
    /\ pc = "proxy"
    /\ out = NoOutput
    /\ ex = ExportIdle
    /\ sy = SyncIdle
    /\ calls = << >>

NextProxy == ProxyRequest

SpecProxy == InitProxy /\ [][NextProxy]_vars

\* host is one of the entries of the comma-separated list once the blanks
\* around the entry are taken away: some stretch of the list that is bounded by
\* commas or the list's ends and holds no comma is the host between blanks
HostListed(list, host) ==
    /\ list # EmptyStr
    /\ \E a \in 1..(Len(list) + 1), b \in 0..Len(list) :
           /\ a <= b + 1
           /\ a = 1 \/ list[a - 1] = Comma
           /\ b = Len(list) \/ list[b + 1] = Comma
           /\ \A k \in a..b : list[k] # Comma
           /\ \E l \in a..(b + 1) :
               LET r == l + Len(host) - 1 IN
               /\ r <= b
               /\ SubSeq(list, l, r) = host
               /\ \A k \in (a..(l - 1)) \cup ((r + 1)..b) : list[k] \in Whitespace

\* C29: the proxy function answers "no proxy" when the request's host is an
\* entry of NO_PROXY (comma-separated, blanks around an entry ignored),
\* whatever the scheme and the proxies; otherwise it answers with HTTPS_PROXY
\* for an https request when that is set, with HTTP_PROXY for an http request
\* when that is set, and "no proxy" in every other case: an https request is
\* never given HTTP_PROXY nor an http request HTTPS_PROXY.
C29_ProxyChoice ==
    (scenario = "proxy" /\ rt.state = "asked") =>
        LET listed == HostListed(cfg.NoProxy, rt.req.Host)
            https == rt.req.Scheme = <<"https">>
            http == rt.req.Scheme = <<"http">>
        IN  /\ listed => rt.proxy = NoProxyResult
            /\ (~listed /\ https /\ cfg.HTTPSProxy # EmptyStr)
                    => rt.proxy = urlParse(cfg.HTTPSProxy)
            /\ (~listed /\ http /\ cfg.HTTPProxy # EmptyStr)
                    => rt.proxy = urlParse(cfg.HTTPProxy)
            /\ (~listed /\ ~(https /\ cfg.HTTPSProxy # EmptyStr)
                        /\ ~(http /\ cfg.HTTPProxy # EmptyStr))
                    => rt.proxy = NoProxyResult
            /\ https => rt.proxy.url # ProxyForHTTP
            /\ http => rt.proxy.url # ProxyForHTTPS

\* C29 witness: both proxies are set and the https request's host stands in
\* NO_PROXY after a comma and a blank: no proxy
C29_Witness ==
    /\ scenario = "proxy" /\ rt.state = "asked"
    /\ cfg.HTTPProxy = ProxyForHTTP /\ cfg.HTTPSProxy = ProxyForHTTPS
    /\ cfg.NoProxy = HostEnterprise \o <<Comma, Space>> \o HostGitHub
    /\ rt.req = [Scheme |-> <<"https">>, Host |-> HostGitHub]
    /\ rt.proxy = NoProxyResult

\* an https request to a host that is not listed is given HTTPS_PROXY
HTTPSProxyChosen ==
    /\ scenario = "proxy" /\ rt.state = "asked"
    /\ cfg.HTTPProxy = ProxyForHTTP /\ cfg.HTTPSProxy = ProxyForHTTPS
    /\ cfg.NoProxy = HostGitHub
    /\ rt.req = [Scheme |-> <<"https">>, Host |-> HostEnterprise]
    /\ rt.proxy = [url |-> ProxyForHTTPS, err |-> FALSE]

\* an http request with only HTTPS_PROXY set is given no proxy
HTTPWithoutProxy ==
    /\ scenario = "proxy" /\ rt.state = "asked"
    /\ cfg.HTTPProxy = EmptyStr /\ cfg.HTTPSProxy = ProxyForHTTPS
    /\ rt.req.Scheme = <<"http">>
    /\ ~HostListed(cfg.NoProxy, rt.req.Host)
    /\ rt.proxy = NoProxyResult

====
